---------------------------- MODULE Spec2Model ----------------------------
(***************************************************************************)
(* Training orchestration of PyTorch_YOLO_Tutorial (engine.py): the three  *)
(* trainers YoloTrainer, RTMTrainer and DetrTrainer, their epoch loop      *)
(* (train), their per-micro-batch loop (train_one_epoch) and their         *)
(* evaluation / checkpoint step (eval), for one process or for several     *)
(* processes that meet at the collectives reduce_dict and dist.barrier.    *)
(*                                                                         *)
(* Opaque collaborators (model forward, criterion, evaluator, torch's      *)
(* GradScaler and optimizer) are modelled by their interface only: the     *)
(* evaluator yields a metric drawn from MetricValues, a backward pass      *)
(* under fp16 may leave non-finite gradients, GradScaler.step skips the    *)
(* optimizer step when it found non-finite gradients.                      *)
(***************************************************************************)
EXTENDS Integers, Sequences, FiniteSets, TLC

(***************************************************************************)
(* Bounds of the model.                                                    *)
(***************************************************************************)
MaxEpochSize == 3       \* len(train_loader) ranges over 1..MaxEpochSize
MaxArgsEpoch == 2       \* args.max_epoch ranges over 1..MaxArgsEpoch

(***************************************************************************)
(* Program constants.                                                      *)
(***************************************************************************)
InitBestMap == -10000   \* self.best_map = -1.   (metrics are in 1/10000)
NoEvalMap == -1         \* 'mAP': -1. of the no-evaluator checkpoint
RefBatch == 64          \* the 64 of round(64 / batch_size)

TrainerTypes == {"yolo", "rtmdet", "detr"}
BatchSizes == {16, 32, 64}
\* evaluator.map in 1/10000: 0.0812, 0.1004, 0.1536 and the value -1.0
MetricValues == {-10000, 812, 1004, 1536}
ClipGrads == {0, 10}

Max(a, b) == IF a >= b THEN a ELSE b

(***************************************************************************)
(* round() of Python and of numpy on the rational num / den (num >= 0,     *)
(* den > 0): to the nearest integer, a tie to the even one.                *)
(***************************************************************************)
RoundHalfEven(num, den) ==
    LET q == num \div den
        r == num % den
    IN  IF 2 * r < den THEN q
        ELSE IF 2 * r > den THEN q + 1
        ELSE IF q % 2 = 0 THEN q ELSE q + 1

\* accumulate = max(1, round(64 / self.args.batch_size))
AccumulateTarget(batch_size) == Max(1, RoundHalfEven(RefBatch, batch_size))

AccumulateWarmupNoFloor(ni, nw, batch_size) ==
    IF ni >= nw
    THEN RoundHalfEven(RefBatch, batch_size)
    ELSE RoundHalfEven(batch_size * nw + (RefBatch - batch_size) * ni,
                       batch_size * nw)

(***************************************************************************)
(* accumulate = max(1, np.interp(ni, [0, nw], [1, 64 / batch_size]).round())*)
(* np.interp returns fp[-1] at x = xp[-1] (so also for nw = 0, x = 0) and  *)
(* 1 + (64 / bs - 1) * ni / nw = (bs*nw + (64 - bs)*ni) / (bs*nw) inside.  *)
(***************************************************************************)
AccumulateWarmup(ni, nw, batch_size) ==
    IF ni >= nw
    THEN Max(1, RoundHalfEven(RefBatch, batch_size))
    ELSE Max(1, RoundHalfEven(batch_size * nw + (RefBatch - batch_size) * ni,
                              batch_size * nw))

(***************************************************************************)
(* Learning rates and momenta are rationals [num, den] in lowest terms     *)
(* with den > 0; the configured values are given in 1/1000.                *)
(***************************************************************************)
Abs(a) == IF a >= 0 THEN a ELSE -a

RECURSIVE GCD(_, _)
GCD(a, b) == IF b = 0 THEN a ELSE GCD(b, a % b)

Rat(n, d) ==
    LET g == GCD(Abs(n), d)
    IN  [num |-> (IF n >= 0 THEN n \div g ELSE -((-n) \div g)), den |-> d \div g]

Milli(n) == Rat(n, 1000)

RatAdd(a, b) == Rat(a.num * b.den + b.num * a.den, a.den * b.den)

RatSub(a, b) == Rat(a.num * b.den - b.num * a.den, a.den * b.den)

RatMul(a, b) == Rat(a.num * b.num, a.den * b.den)

RatLE(a, b) == a.num * b.den <= b.num * a.den

InterpDegenerateLeft(x, x1, a, b) ==
    IF x1 = 0 /\ x = 0 THEN a
    ELSE IF x >= x1 THEN b
    ELSE RatAdd(a, RatMul(RatSub(b, a), Rat(x, x1)))

\* np.interp(x, [0, x1], [a, b]) for 0 <= x: a + (b - a) * x / x1 inside
\* the interval, and fp[-1] = b from x = x1 on (so also for x1 = 0)
\* (the operands are evaluated once each, step by step)
Interp(x, x1, a, b) ==
    IF x >= x1 THEN b
    ELSE CHOOSE v \in
            UNION { { RatAdd(ab[1], m) :
                        m \in { RatMul(s, r) : s \in {RatSub(ab[2], ab[1])},
                                               r \in {Rat(x, x1)} } } :
                    ab \in {<< a, b >>} } : TRUE

\* the parameter groups of the optimizer (the log line reads cur_lr[2])
Groups == 0..2

RatOf(n) == Rat(n, 1)

RatMin(a, b) == IF RatLE(a, b) THEN a ELSE b

(***************************************************************************)
(* Targets.  A box is a tuple <<x1, y1, x2, y2>> of rationals, a target    *)
(* (the dict of one image) a record [boxes, labels] of two sequences of    *)
(* equal length, and the targets of a batch a sequence of such records.    *)
(***************************************************************************)
\* t[keep] for a tensor t and a boolean mask keep
Index(t, keep) ==
    LET idx == SelectSeq([i \in 1..Len(t) |-> i], LAMBDA i : keep[i])
    IN  [k \in 1..Len(idx) |-> t[idx[k]]]

\* torch.clamp(boxes, 0, old_img_size)
Clamp(box, old_img_size) ==
    [k \in 1..4 |->
        IF RatLE(box[k], RatOf(0)) THEN RatOf(0)
        ELSE IF RatLE(RatOf(old_img_size), box[k]) THEN RatOf(old_img_size)
        ELSE box[k]]

\* boxes[:, [0, 2]] / old_img_size * new_img_size, and the same for [1, 3]
Rescale(box, old_img_size, new_img_size) ==
    [k \in 1..4 |->
        RatMul(RatMul(box[k], Rat(1, old_img_size)), RatOf(new_img_size))]

\* tgt_boxes_wh = boxes[..., 2:] - boxes[..., :2];
\* min_tgt_size = torch.min(tgt_boxes_wh, dim=-1)[0]
MinTgtSize(box) == RatMin(RatSub(box[3], box[1]), RatSub(box[4], box[2]))

KeepStrict(boxes, min_box_size) ==
    [i \in 1..Len(boxes) |-> ~RatLE(MinTgtSize(boxes[i]), RatOf(min_box_size))]

\* keep = (min_tgt_size >= min_box_size)
Keep(boxes, min_box_size) ==
    [i \in 1..Len(boxes) |-> RatLE(RatOf(min_box_size), MinTgtSize(boxes[i]))]

XyxyToCxcywhNoHalf(box) ==
    << RatAdd(box[3], box[1]), RatAdd(box[4], box[2]),
       RatSub(box[3], box[1]), RatSub(box[4], box[2]) >>

\* new_boxes[..., :2] = (boxes[..., 2:] + boxes[..., :2]) * 0.5
\* new_boxes[..., 2:] = (boxes[..., 2:] - boxes[..., :2])
XyxyToCxcywh(box) ==
    << RatMul(RatAdd(box[3], box[1]), Rat(1, 2)),
       RatMul(RatAdd(box[4], box[2]), Rat(1, 2)),
       RatSub(box[3], box[1]), RatSub(box[4], box[2]) >>

\* new_boxes /= img_size
Normalize(box, img_size) == [k \in 1..4 |-> RatMul(box[k], Rat(1, img_size))]

\* the inverse conversion of the box utilities (utils/box_ops.py):
\* (cx - w/2, cy - h/2, cx + w/2, cy + h/2) * img_size
CxcywhToXyxy(box, img_size) ==
    LET half_w == RatMul(box[3], Rat(1, 2))
        half_h == RatMul(box[4], Rat(1, 2))
    IN  << RatMul(RatSub(box[1], half_w), RatOf(img_size)),
           RatMul(RatSub(box[2], half_h), RatOf(img_size)),
           RatMul(RatAdd(box[1], half_w), RatOf(img_size)),
           RatMul(RatAdd(box[2], half_h), RatOf(img_size)) >>

\* YoloTrainer.refine_targets and RTMTrainer.refine_targets
RefineTargets(targets, min_box_size) ==
    [t \in 1..Len(targets) |->
        LET boxes == targets[t].boxes
            keep  == Keep(boxes, min_box_size)
        IN  [boxes |-> Index(boxes, keep),
             labels |-> Index(targets[t].labels, keep)]]

\* the boxes of rescale_image_targets after the clamp and the rescaling
RescaledBoxes(boxes, old_img_size, new_img_size) ==
    [i \in 1..Len(boxes) |->
        Rescale(Clamp(boxes[i], old_img_size), old_img_size, new_img_size)]

\* the loop over the targets in YoloTrainer.rescale_image_targets and
\* RTMTrainer.rescale_image_targets
RescaleTargets(targets, old_img_size, new_img_size, min_box_size) ==
    [t \in 1..Len(targets) |->
        LET boxes == RescaledBoxes(targets[t].boxes, old_img_size, new_img_size)
            keep  == Keep(boxes, min_box_size)
        IN  [boxes |-> Index(boxes, keep),
             labels |-> Index(targets[t].labels, keep)]]

\* new_boxes of the DetrTrainer: all boxes converted, then normalized
NewBoxes(boxes, img_size) ==
    [i \in 1..Len(boxes) |-> Normalize(XyxyToCxcywh(boxes[i]), img_size)]

DetrRefineTargetsKeepAll(targets, min_box_size, img_size) ==
    [t \in 1..Len(targets) |->
        [boxes |-> NewBoxes(targets[t].boxes, img_size),
         labels |-> targets[t].labels]]

\* DetrTrainer.refine_targets
DetrRefineTargets(targets, min_box_size, img_size) ==
    [t \in 1..Len(targets) |->
        LET boxes == targets[t].boxes
            keep  == Keep(boxes, min_box_size)
        IN  [boxes |-> Index(NewBoxes(boxes, img_size), keep),
             labels |-> Index(targets[t].labels, keep)]]

\* the loop over the targets in DetrTrainer.rescale_image_targets
DetrRescaleTargets(targets, old_img_size, new_img_size, min_box_size) ==
    [t \in 1..Len(targets) |->
        LET boxes == RescaledBoxes(targets[t].boxes, old_img_size, new_img_size)
            keep  == Keep(boxes, min_box_size)
        IN  [boxes |-> Index(NewBoxes(boxes, new_img_size), keep),
             labels |-> Index(targets[t].labels, keep)]]

\* max_stride = stride for an int, max(stride) for a list (given here as a
\* sequence in both cases)
MaxStride(stride) ==
    CHOOSE m \in {stride[i] : i \in 1..Len(stride)} :
        \A i \in 1..Len(stride) : stride[i] <= m

\* the values random.randrange(a, b) can return: the integers a <= r < b;
\* with an argument that is not integral it raises ValueError and returns
\* nothing
RandRange(a, b) == IF a.den = 1 /\ b.den = 1 THEN a.num..(b.num - 1) ELSE {}

NewImgSizeNoFloor(r, max_stride) == r

\* new_img_size = new_img_size // max_stride * max_stride
NewImgSize(r, max_stride) == (r \div max_stride) * max_stride

\* the sizes rescale_image_targets can come to for images of old_img_size
NewImgSizes(old_img_size, max_stride, multi_scale_range) ==
    { NewImgSize(r, max_stride) :
        r \in RandRange(RatMul(RatOf(old_img_size), multi_scale_range[1]),
                        RatAdd(RatMul(RatOf(old_img_size), multi_scale_range[2]),
                               RatOf(max_stride))) }

VARIABLES
    cfg,            \* the configuration of the run: args, model_cfg, the
                    \* loader's length (epoch_size), the dataset's
                    \* augmentation probabilities (0: 0.0, 1: above 0),
                    \* the epoch the optimizer resumed at (start_epoch)
    Ranks,          \* the ranks of the processes of the run
    pc,             \* pc[p]: where process p is in train()
    max_epoch,      \* args.max_epoch after __init__ added wp_epoch
    loop_epoch,     \* the variable epoch of train()'s for loop
    epoch,          \* self.epoch
    iter_i,         \* iter_i of train_one_epoch
    last_opt_step,  \* self.last_opt_step
    accumulate,     \* the local accumulate of train_one_epoch
    heavy_eval,     \* self.heavy_eval
    mosaic_prob,    \* train_loader.dataset.mosaic_prob
    mixup_prob,     \* train_loader.dataset.mixup_prob
    best_map,       \* self.best_map
    opt,            \* optimizer, gradients, GradScaler and ModelEMA
    mb,             \* the micro-batch last completed
    ckpt,           \* the checkpoint files
    evals,          \* the evaluations a process ran: <<[m, wrote]>>
    calls,          \* how often a process called what, and how often
                    \* train() set mosaic_prob / mixup_prob to 0
    evaled,         \* the loop epochs after which a process called eval
    param_groups,   \* optimizer.param_groups: initial_lr, lr, momentum
    lr_scheduler,   \* lr_scheduler.last_epoch
    batch           \* the micro-batch in work: the size of its images, the
                    \* targets as the loader gave them, the entries of the
                    \* loader's target dicts after the "# Multi scale" step
                    \* (caller), and what that step returned (targets)
    ,loss           \* the losses of the micro-batch: loss_dict (dict), its
                    \* entries when reduce_dict was called (at_reduce),
                    \* loss_dict_reduced (reduced), the tensor backward()
                    \* was called on (backward, once done), and the values
                    \* the log line printed (log, if logged)
    ,eval_ops       \* the steps of the eval call a process began last, in
                    \* order: evaluate, compare, save, barrier
    ,build          \* what build_model and build_trainer did (returned an
                    \* object, raised, or were not reached: none), and the
                    \* exception that ended the run, if one did
    ,weights        \* build_model's loading of checkpoints: its arguments
                    \* (trainable, the files of args.pretrained and
                    \* args.resume), model.state_dict() (per key the shape
                    \* and where the values are from), the keys popped from
                    \* the pretrained checkpoint, the dict given to the
                    \* non-strict load_state_dict, the loads made so far

vars == << cfg, Ranks, pc, max_epoch, loop_epoch, epoch, iter_i,
           last_opt_step, accumulate, heavy_eval, mosaic_prob, mixup_prob,
           best_map, opt, mb, ckpt, evals, calls, evaled, param_groups,
           lr_scheduler, batch, loss, build, eval_ops, weights >>

\* distributed_utils.get_world_size()
WorldSize == Cardinality(Ranks)

\* distributed_utils.is_main_process()
IsMainProcess(p) == p = 0

\* self.model_ema is not None: args.ema and get_rank() in [-1, 0]
HasEma(p) == cfg.ema /\ p = 0

\* between two micro-batches: img_size is the local of train_one_epoch that
\* the log line prints, the rest is not bound
NoBatch(img_size) ==
    [loaded |-> 0, old_img_size |-> 0, new_img_size |-> 0, img_size |-> img_size,
     loader |-> << >>, caller |-> << >>, targets |-> << >>,
     new_boxes |-> << >>]

\* the keys of the dict the criterion returns: a component and the aggregate
LossKeys == {"loss_cls", "losses"}

\* images.shape[0]: build_dataloader(..., self.args.batch_size // world_size)
LocalBatch == cfg.batch_size \div WorldSize

\* if distributed_utils.is_main_process() and iter_i % 10 == 0:
LogInterval == 10

Logs(p) == IsMainProcess(p) /\ iter_i[p] % LogInterval = 0

NoLoss ==
    [dict |-> [k \in LossKeys |-> RatOf(0)],
     at_reduce |-> [k \in LossKeys |-> RatOf(0)],
     reduced |-> [k \in LossKeys |-> RatOf(0)],
     backward |-> RatOf(0), done |-> FALSE, logged |-> FALSE,
     log |-> [k \in LossKeys |-> RatOf(0)]]

\* a file that was never written
NoFile ==
    [n |-> 0, by |-> -1, epoch |-> -1, mAP |-> RatOf(NoEvalMap),
     ema |-> FALSE, optimizer |-> << >>]

(***************************************************************************)
(* self.lf, the decay function build_lr_scheduler returns (utils/solver/   *)
(* lr_scheduler.py): a schedule over the epochs that falls linearly from 1 *)
(* at epoch 0 to lrf at epoch `epochs`.                                    *)
(***************************************************************************)
Lf(e, epochs, lrf) ==
    Rat((epochs - e) * (1000 - lrf) + lrf * epochs, 1000 * epochs)

\* x['initial_lr'] * self.lf(e) (the factor is evaluated once)
DecayedLr(g, e, c) ==
    CHOOSE lr \in { RatMul(g.initial_lr, lf) :
                      lf \in {Lf(e, c.args_epoch + c.wp_epoch, c.lrf)} } : TRUE

\* torch's LambdaLR: the groups after the scheduler has moved to last_epoch
ScheduledGroups(groups, last_epoch, c) ==
    [j \in Groups |-> [groups[j] EXCEPT !.lr = DecayedLr(groups[j], last_epoch, c)]]

\* the groups the optimizer builder and the scheduler's constructor leave:
\* lr = initial_lr = lr0, a 'momentum' entry for SGD only
BuiltGroups(c) ==
    [j \in Groups |->
        [initial_lr |-> Milli(c.lr0), lr |-> Milli(c.lr0),
         has_momentum |-> c.optimizer = "sgd",
         momentum |-> IF c.optimizer = "sgd" THEN Milli(c.momentum) ELSE Milli(0)]]

(***************************************************************************)
(* build_model and build_trainer.  build_model binds model and criterion   *)
(* in an if / elif chain over args.model that has no else branch, so an    *)
(* unlisted name reaches the first use of the unbound local model;         *)
(* YOLOvx.__init__ takes len(cfg['stride']).                               *)
(***************************************************************************)
KnownModels ==
    {"yolov1", "yolov2", "yolov3", "yolov3_t", "yolov4", "yolov4_t",
     "yolov5_n", "yolov5_s", "yolov5_m", "yolov5_l", "yolov5_x",
     "yolov7_t", "yolov7_l", "yolov7_x",
     "yolox_n", "yolox_s", "yolox_m", "yolox_l", "yolox_x",
     "yolovx_n", "yolovx_s", "yolovx_m", "yolovx_l", "yolovx_x",
     "rtdetr_n", "rtdetr_s", "rtdetr_m", "rtdetr_l", "rtdetr_x"}

YolovxModels == {"yolovx_n", "yolovx_s", "yolovx_m", "yolovx_l", "yolovx_x"}

BuildModel(c) ==
    IF c.model \notin KnownModels THEN "UnboundLocalError"
    ELSE IF c.model \in YolovxModels /\ c.stride_type = "int" THEN "TypeError"
    ELSE "none"

\* if model_cfg['trainer_type'] == 'yolo': ... else: raise NotImplementedError
BuildTrainer(c) ==
    IF c.trainer_type \in TrainerTypes THEN "none" ELSE "NotImplementedError"

\* the model is built first: build_trainer takes it as an argument
Build(c) ==
    IF BuildModel(c) # "none"
    THEN [model |-> "raised", trainer |-> "none", error |-> BuildModel(c)]
    ELSE IF BuildTrainer(c) # "none"
    THEN [model |-> "returned", trainer |-> "raised", error |-> BuildTrainer(c)]
    ELSE [model |-> "returned", trainer |-> "returned", error |-> "none"]

\* rescale_image_targets: if isinstance(stride, int): max_stride = stride
\* elif isinstance(stride, list): max_stride = max(stride); nothing binds
\* max_stride for any other type
MaxStrideBound(stride_type) == stride_type \in {"int", "list"}

\* self.args.resume: the optimizer builder returns a start_epoch above 0
\* only from a checkpoint
Resume(c) == c.start_epoch > 0

(***************************************************************************)
(* __init__ of the three trainers.                                         *)
(***************************************************************************)
\* the keys a state dict can hold and the shapes of a tensor (such as the
\* class predictor's for 20 or for 80 classes)
StateDictKeys == {"backbone", "head", "extra"}

Shapes == {<< 20 >>, << 80 >>}

ModelKeys == {"backbone", "head"}

\* model.state_dict() of the model just built
ModelStateDicts ==
    { [k \in ModelKeys |-> [shape |-> shapes[k], from |-> "init"]] :
        shapes \in [ModelKeys -> Shapes] }

\* checkpoint.pop("model") of a file: per key the shape of the tensor
CheckpointStateDicts == UNION { [K -> Shapes] : K \in SUBSET StateDictKeys }

\* args.pretrained / args.resume: None, or the path of a checkpoint
NoCheckpoint == [given |-> FALSE, model |-> << >>]

CheckpointFiles ==
    {NoCheckpoint} \cup { [given |-> TRUE, model |-> d] : d \in CheckpointStateDicts }

\* build_model when it reaches "if trainable:"
BuiltModel(trainable, model_state_dict, pretrained, resume) ==
    [trainable |-> trainable, pretrained |-> pretrained, resume |-> resume,
     model |-> model_state_dict,
     stage |-> IF trainable THEN "pretrained" ELSE "returned",
     popped |-> {}, loaded |-> << >>, ops |-> << >>, error |-> "none"]

ConstructTrainer(c, ranks) ==
    /\ cfg = c
    /\ Ranks = ranks
    /\ max_epoch = c.args_epoch + c.wp_epoch
    /\ build = Build(c)
    \* without a trainer nothing runs: the fields below are then not bound
    /\ pc = [p \in ranks |-> IF Build(c).error = "none" THEN "loop" ELSE "raised"]
    /\ loop_epoch = [p \in ranks |-> c.start_epoch]
    /\ epoch = [p \in ranks |-> 0]
    /\ iter_i = [p \in ranks |-> 0]
    /\ last_opt_step = [p \in ranks |-> 0]
    /\ accumulate = [p \in ranks |-> AccumulateTarget(c.batch_size)]
    /\ heavy_eval = [p \in ranks |-> FALSE]
    /\ mosaic_prob = [p \in ranks |-> c.mosaic_prob]
    /\ mixup_prob = [p \in ranks |-> c.mixup_prob]
    /\ best_map = [p \in ranks |-> InitBestMap]
    /\ opt = [p \in ranks |->
                [grads |-> {}, inf |-> FALSE, unscaled |-> FALSE,
                 clipped_scaled |-> FALSE, steps |-> 0, skipped |-> 0,
                 stepped |-> FALSE, applied |-> {}, zeroed |-> 0,
                 ema_updates |-> 0, ema_now |-> FALSE, ops |-> << >>]]
    /\ mb = [p \in ranks |-> [n |-> 0, ni |-> 0, window |-> 0, before |-> 0,
                              lr |-> [j \in Groups |-> Milli(0)]]]
    /\ ckpt = [f \in {"best", "no_eval"} |-> NoFile]
    /\ evals = [p \in ranks |-> << >>]
    /\ calls = [p \in ranks |->
                  [fetched |-> 0, warmup |-> 0, reduce |-> 0, barrier |-> 0, eval |-> 0, body |-> 0,
                   returned |-> 0, evaluator |-> 0, sched |-> 0,
                   train_one_epoch |-> 0,
                   close_mosaic |-> 0, close_mixup |-> 0]]
    /\ evaled = [p \in ranks |-> {}]
    /\ batch = [p \in ranks |-> NoBatch(c.img_size)]
    /\ loss = [p \in ranks |-> NoLoss]
    /\ eval_ops = [p \in ranks |-> << >>]
    \* lr_scheduler.last_epoch = start_epoch - 1; if resume: step()
    /\ lr_scheduler = [p \in ranks |->
            IF Resume(c) THEN c.start_epoch ELSE c.start_epoch - 1]
    /\ param_groups = [p \in ranks |->
            IF Resume(c)
            THEN ScheduledGroups(BuiltGroups(c), c.start_epoch, c)
            ELSE BuiltGroups(c)]

\* the trainer of a model that build_model has returned without loading a
\* checkpoint
Construct(c, ranks) ==
    /\ ConstructTrainer(c, ranks)
    /\ weights = [BuiltModel(TRUE, CHOOSE m \in ModelStateDicts : TRUE,
                             NoCheckpoint, NoCheckpoint)
                    EXCEPT !.stage = "returned"]

(***************************************************************************)
(* train(): the head of the for loop, the second-stage check, and the      *)
(* entry of train_one_epoch.                                               *)
(***************************************************************************)
\* epoch >= (self.args.max_epoch - self.model_cfg['no_aug_epoch'] - 1)
SecondStage(e) == e >= max_epoch - cfg.no_aug_epoch - 1

CloseAugEveryEpoch(second, prob) == second

\* the two "if prob > 0.: prob = 0.; self.heavy_eval = True" blocks
CloseAug(second, prob) == second /\ prob > 0

InRangeInclusive(e) == e <= max_epoch

\* for epoch in range(self.start_epoch, self.args.max_epoch)
InRange(e) == e < max_epoch

TrainLoopHead(p) ==
    /\ pc[p] = "loop"
    /\ IF InRange(loop_epoch[p])
       THEN LET second == SecondStage(loop_epoch[p])
                mosaic == CloseAug(second, mosaic_prob[p])
                mixup  == CloseAug(second, mixup_prob[p])
            IN  /\ mosaic_prob' = [mosaic_prob EXCEPT ![p] = IF mosaic THEN 0 ELSE @]
                /\ mixup_prob' = [mixup_prob EXCEPT ![p] = IF mixup THEN 0 ELSE @]
                /\ heavy_eval' = [heavy_eval EXCEPT ![p] = @ \/ mosaic \/ mixup]
                /\ calls' = [calls EXCEPT
                      ![p].train_one_epoch = @ + 1,
                      ![p].close_mosaic = @ + (IF mosaic THEN 1 ELSE 0),
                      ![p].close_mixup = @ + (IF mixup THEN 1 ELSE 0)]
                \* train_one_epoch: the basic parameters
                /\ accumulate' = [accumulate EXCEPT ![p] = AccumulateTarget(cfg.batch_size)]
                /\ iter_i' = [iter_i EXCEPT ![p] = 0]
                \* img_size = self.args.img_size
                /\ batch' = [batch EXCEPT ![p] = NoBatch(cfg.img_size)]
                /\ pc' = [pc EXCEPT ![p] = "iter"]
       ELSE /\ pc' = [pc EXCEPT ![p] = "done"]
            /\ UNCHANGED << mosaic_prob, mixup_prob, heavy_eval, accumulate,
                            iter_i, calls, batch >>
    /\ UNCHANGED << param_groups, lr_scheduler, loss, build >>
    /\ UNCHANGED << weights, eval_ops, cfg, Ranks, max_epoch, loop_epoch, epoch, last_opt_step,
                    best_map, opt, mb, ckpt, evals, evaled >>

(***************************************************************************)
(* train_one_epoch, one micro-batch, first part: the global step, the      *)
(* warmup, the forward pass and the loss, up to the call of reduce_dict.   *)
(***************************************************************************)
GlobalStepPerEpoch(p) == iter_i[p]

\* ni = iter_i + self.epoch * epoch_size
GlobalStep(p) == iter_i[p] + epoch[p] * cfg.epoch_size

\* nw = epoch_size * self.args.wp_epoch
WarmupWindow == cfg.epoch_size * cfg.wp_epoch

WarmupActiveStrict(ni, nw) == ni < nw

\* if ni <= nw:
WarmupActive(ni, nw) == ni <= nw

\* the first of the two values x['lr'] is interpolated between:
\* YoloTrainer and RTMTrainer "warmup_bias_lr if j == 0 else 0.0",
\* DetrTrainer 0.0
WarmupStartLr(j) ==
    IF cfg.trainer_type # "detr" /\ j = 0
    THEN Milli(cfg.warmup_bias_lr)
    ELSE Milli(0)

\* for j, x in enumerate(self.optimizer.param_groups): x['lr'] = ...;
\* if 'momentum' in x: x['momentum'] = ...
Warmup(groups, ni, nw, e) ==
    [j \in Groups |->
        [groups[j] EXCEPT
            !.lr = Interp(ni, nw, WarmupStartLr(j), DecayedLr(groups[j], e, cfg)),
            !.momentum = IF groups[j].has_momentum
                         THEN Interp(ni, nw, Milli(cfg.warmup_momentum),
                                     Milli(cfg.momentum))
                         ELSE @]]

\* the targets the loader can yield for a batch
LoaderBoxes ==
    { << 0, 0, 6, 10 >>, << 0, 0, 8, 8 >>, << 100, 100, 300, 260 >>,
      << 3, 4, 16, 11 >>, << 600, 0, 640, 640 >>, << 5, 5, 5, 5 >>,
      << -10, 100, 5, 200 >> }

BoxBefore(a, b) ==
    \E k \in 1..4 : a[k] < b[k] /\ \A i \in 1..(k - 1) : a[i] = b[i]

Target(int_boxes) ==
    [boxes |-> [i \in 1..Len(int_boxes) |->
                   [k \in 1..4 |-> RatOf(int_boxes[i][k])]],
     labels |-> [i \in 1..Len(int_boxes) |-> i]]

\* batches of one image with up to two boxes, and of two images
LoaderTargets(c) ==
    IF c.dataset = "boxes"
    THEN { << Target(<< >>) >> }
         \cup { << Target(<< a >>) >> : a \in LoaderBoxes }
         \cup { << Target(<< ab[1], ab[2] >>) >> :
                  ab \in { x \in LoaderBoxes \X LoaderBoxes :
                             BoxBefore(x[1], x[2]) } }
         \cup { << Target(<< a >>), Target(<< >>) >> : a \in LoaderBoxes }
    ELSE { << Target(<< >>) >> }

\* the "# Multi scale" step of train_one_epoch for the targets tg of the
\* loader and, on the multi-scale path, the size drawn: both functions
\* assign the filtered boxes and labels to the entries of the dicts they
\* were given and return the list they were given
Augmented(tg, new_img_size, img_size) ==
    LET detr == cfg.trainer_type = "detr"
        old  == cfg.img_size
        min_box_size == cfg.min_box_size
    IN  IF cfg.multi_scale
        THEN LET result ==
                   IF detr
                   THEN DetrRescaleTargets(tg, old, new_img_size, min_box_size)
                   ELSE RescaleTargets(tg, old, new_img_size, min_box_size)
             IN  [loaded |-> old, old_img_size |-> old,
                  new_img_size |-> new_img_size, img_size |-> new_img_size,
                  loader |-> tg, caller |-> result, targets |-> result,
                  new_boxes |->
                     IF detr
                     THEN [t \in 1..Len(tg) |->
                             NewBoxes(RescaledBoxes(tg[t].boxes, old, new_img_size),
                                      new_img_size)]
                     ELSE << >>]
        ELSE LET result ==
                   IF detr
                   THEN DetrRefineTargets(tg, min_box_size, img_size)
                   ELSE RefineTargets(tg, min_box_size)
             IN  [loaded |-> old, old_img_size |-> 0, new_img_size |-> 0,
                  img_size |-> img_size,
                  loader |-> tg, caller |-> result, targets |-> result,
                  new_boxes |->
                     IF detr
                     THEN [t \in 1..Len(tg) |-> NewBoxes(tg[t].boxes, img_size)]
                     ELSE << >>]

\* loss_dict = self.criterion(...); losses = loss_dict['losses'];
\* YoloTrainer: losses *= images.shape[0], in place on the dict's tensor
Criterion(l) ==
    [k \in LossKeys |->
        IF k = "losses" /\ cfg.trainer_type = "yolo"
        THEN RatMul(RatOf(l[k]), RatOf(LocalBatch))
        ELSE RatOf(l[k])]

\* torch.nn.functional.interpolate(input=images, size=new_img_size, ...)
\* is called when new_img_size / old_img_size != 1 and raises RuntimeError
\* for an output size that is not above 0
InterpolateRaises(old_img_size, new_img_size) ==
    new_img_size # old_img_size /\ new_img_size <= 0

\* rescale_image_targets up to the interpolate call that raised: the size
\* drawn is bound, img_size of train_one_epoch is not assigned
Interrupted(old_img_size, new_img_size, img_size) ==
    [NoBatch(img_size) EXCEPT !.loaded = old_img_size,
                              !.old_img_size = old_img_size,
                              !.new_img_size = new_img_size]

Forward(p) ==
    /\ pc[p] = "iter"
    /\ LET ni == GlobalStep(p)
           nw == WarmupWindow
       IN  /\ accumulate' = [accumulate EXCEPT ![p] =
                   IF cfg.trainer_type = "yolo" /\ WarmupActive(ni, nw)
                   THEN AccumulateWarmup(ni, nw, cfg.batch_size)
                   ELSE @]
           /\ param_groups' = [param_groups EXCEPT ![p] =
                IF WarmupActive(ni, nw)
                THEN Warmup(@, ni, nw, epoch[p])
                ELSE @]
    /\ IF cfg.multi_scale /\ ~MaxStrideBound(cfg.stride_type)
       THEN \* UnboundLocalError at the first use of max_stride
            /\ build' = [build EXCEPT !.error = "UnboundLocalError"]
            /\ calls' = [calls EXCEPT ![p].fetched = @ + 1,
                    ![p].warmup = @ + (IF WarmupActive(GlobalStep(p), WarmupWindow)
                                       THEN 1 ELSE 0)]
            /\ pc' = [pc EXCEPT ![p] = "raised"]
            /\ UNCHANGED << batch, loss >>
       ELSE /\ \E tg \in LoaderTargets(cfg) :
                 \E new_img_size \in
                       (IF cfg.multi_scale
                        THEN NewImgSizes(cfg.img_size, MaxStride(cfg.stride),
                                         cfg.multi_scale_range)
                        ELSE {cfg.img_size}) :
                    IF cfg.multi_scale /\ InterpolateRaises(cfg.img_size, new_img_size)
                    THEN /\ batch' = [batch EXCEPT ![p] =
                                Interrupted(cfg.img_size, new_img_size, @.img_size)]
                         /\ build' = [build EXCEPT !.error = "RuntimeError"]
                         /\ calls' = [calls EXCEPT ![p].fetched = @ + 1,
                                ![p].warmup = @ +
                                    (IF WarmupActive(GlobalStep(p), WarmupWindow)
                                     THEN 1 ELSE 0)]
                         /\ pc' = [pc EXCEPT ![p] = "raised"]
                         /\ UNCHANGED loss
                    ELSE /\ batch' = [batch EXCEPT ![p] =
                                Augmented(tg, new_img_size, @.img_size)]
                         /\ \E l \in cfg.criterion :
                              loss' = [loss EXCEPT ![p] =
                                         [NoLoss EXCEPT !.dict = Criterion(l)]]
                         /\ calls' = [calls EXCEPT ![p].fetched = @ + 1,
                                ![p].reduce = @ + 1,
                                ![p].warmup = @ +
                                    (IF WarmupActive(GlobalStep(p), WarmupWindow)
                                     THEN 1 ELSE 0)]
                         /\ pc' = [pc EXCEPT ![p] = "reduce"]
                         /\ UNCHANGED build
    /\ UNCHANGED << weights, eval_ops, cfg, Ranks, max_epoch, loop_epoch, epoch, iter_i,
                    last_opt_step, heavy_eval, mosaic_prob, mixup_prob,
                    best_map, opt, mb, ckpt, evals, evaled, lr_scheduler >>

(***************************************************************************)
(* distributed_utils.reduce_dict: the input itself in a single process, an *)
(* all_reduce that every process of the group has to join otherwise.       *)
(***************************************************************************)
RECURSIVE SumOver(_, _)
SumOver(S, k) ==
    IF S = {} THEN RatOf(0)
    ELSE LET q == CHOOSE x \in S : TRUE
         IN  RatAdd(loss[q].dict[k], SumOver(S \ {q}, k))

\* what reduce_dict returns to every process: its input in a single
\* process, else for every key the sum over the processes / world size
ReducedDict(q) ==
    IF WorldSize < 2 THEN loss[q].dict
    ELSE [k \in LossKeys |->
            CHOOSE avg \in { RatMul(sum, Rat(1, WorldSize)) :
                               sum \in {SumOver(Ranks, k)} } : TRUE]

ReduceDict ==
    /\ \A q \in Ranks : pc[q] = "reduce"
    /\ pc' = [q \in Ranks |-> "backward"]
    /\ loss' = [q \in Ranks |->
                  [loss[q] EXCEPT !.at_reduce = loss[q].dict,
                                  !.reduced = ReducedDict(q)]]
    /\ UNCHANGED << param_groups, lr_scheduler, batch, build >>
    /\ UNCHANGED << weights, eval_ops, cfg, Ranks, max_epoch, loop_epoch, epoch, iter_i,
                    last_opt_step, accumulate, heavy_eval, mosaic_prob,
                    mixup_prob, best_map, opt, mb, ckpt, evals, calls, evaled >>

(***************************************************************************)
(* The optimizer side of a process, o = opt[p]:                            *)
(*   grads    the micro-batches (global steps) whose backward pass is      *)
(*            summed in the parameters' .grad                              *)
(*   inf      whether those gradients hold a non-finite value              *)
(*   unscaled whether GradScaler has unscaled them since its last update   *)
(*   steps / skipped   optimizer steps that changed the parameters / that  *)
(*            GradScaler skipped;  applied: what the last step applied     *)
(*   ops      the calls of the micro-batch last completed, in order        *)
(***************************************************************************)
\* self.scaler.scale(losses).backward()
Backward(o, ni, inf) ==
    [o EXCEPT !.grads = @ \cup {ni}, !.inf = @ \/ inf,
              !.ops = Append(@, "backward")]

\* self.scaler.unscale_(self.optimizer)
Unscale(o) == [o EXCEPT !.unscaled = TRUE, !.ops = Append(@, "unscale")]

\* torch.nn.utils.clip_grad_norm_(model.parameters(), max_norm=...)
ClipGrad(o) ==
    [o EXCEPT !.clipped_scaled = @ \/ ~o.unscaled, !.ops = Append(@, "clip")]

\* self.scaler.step(self.optimizer): unscales if nobody did, and calls
\* optimizer.step() unless it found non-finite gradients
ScalerStep(o) ==
    IF cfg.fp16 /\ o.inf
    THEN [o EXCEPT !.unscaled = TRUE, !.skipped = @ + 1, !.stepped = FALSE,
                   !.ops = Append(@, "step")]
    ELSE [o EXCEPT !.unscaled = TRUE, !.steps = @ + 1, !.stepped = TRUE,
                   !.applied = o.grads, !.ops = Append(@, "step")]

\* self.scaler.update()
ScalerUpdate(o) == [o EXCEPT !.unscaled = FALSE, !.ops = Append(@, "update")]

\* self.optimizer.zero_grad()
ZeroGrad(o) ==
    [o EXCEPT !.grads = {}, !.inf = FALSE, !.zeroed = @ + 1,
              !.ops = Append(@, "zero_grad")]

\* if self.model_ema is not None: self.model_ema.update(model)
EmaUpdate(o, p) ==
    IF HasEma(p)
    THEN [o EXCEPT !.ema_updates = @ + 1, !.ema_now = TRUE,
                   !.ops = Append(@, "ema")]
    ELSE o

OptimizerUpdateClipFirst(o, p) ==
    EmaUpdate(ZeroGrad(ScalerUpdate(ScalerStep(
        IF cfg.clip_grad > 0 THEN Unscale(ClipGrad(o)) ELSE o))), p)

\* the body of "# Optimize": unscale_ and clip if clip_grad > 0, step,
\* update, zero_grad, ema
OptimizerUpdate(o, p) ==
    EmaUpdate(ZeroGrad(ScalerUpdate(ScalerStep(
        IF cfg.clip_grad > 0 THEN ClipGrad(Unscale(o)) ELSE o))), p)

UpdateFiresStrict(ni, last, acc) == ni - last > acc

\* if ni - self.last_opt_step >= accumulate:
UpdateFires(ni, last, acc) == ni - last >= acc

FiresUnlessDetr(p, ni) ==
    IF cfg.trainer_type # "detr"
    THEN UpdateFires(ni, last_opt_step[p], accumulate[p])
    ELSE TRUE

\* YoloTrainer updates under the accumulation rule, RTMTrainer and
\* DetrTrainer on every micro-batch
Fires(p, ni) ==
    IF cfg.trainer_type = "yolo"
    THEN UpdateFires(ni, last_opt_step[p], accumulate[p])
    ELSE TRUE

AfterBackwardZeroAlways(o, fires, p) ==
    IF fires THEN OptimizerUpdate(o, p) ELSE ZeroGrad(o)

\* "# Optimize": the update runs on a micro-batch that fires, and nothing
\* touches the gradients on one that does not
AfterBackward(o, fires, p) ==
    IF fires THEN OptimizerUpdate(o, p) ELSE o

\* self.last_opt_step = ni (YoloTrainer: inside the if; DetrTrainer: on
\* every micro-batch; RTMTrainer has no such attribute)
NextLastOptStep(p, fires, ni) ==
    IF cfg.trainer_type \in {"yolo", "detr"} /\ fires
    THEN ni
    ELSE last_opt_step[p]

(***************************************************************************)
(* train_one_epoch, one micro-batch, second part: backward, the optimizer  *)
(* update, and the step of the for loop.                                   *)
(***************************************************************************)
\* YoloTrainer: if self.args.distributed: losses *= get_world_size(), in
\* place on loss_dict['losses']; the other two trainers have no such lines
WorldScaled(d) ==
    IF cfg.trainer_type = "yolo" /\ cfg.distributed
    THEN [d EXCEPT !["losses"] = RatMul(@, RatOf(WorldSize))]
    ELSE d

\* the values of the log line: for k in loss_dict_reduced.keys(): ...
\* loss_dict[k], in YoloTrainer loss_dict[k] / world_size for 'losses' of
\* a distributed run
LogLine(d, reduced) ==
    [k \in DOMAIN reduced |->
        IF cfg.trainer_type = "yolo" /\ k = "losses" /\ cfg.distributed
        THEN RatMul(d[k], Rat(1, WorldSize))
        ELSE d[k]]

\* the losses after backward and the log step; in a single process
\* loss_dict_reduced is loss_dict itself
AfterLog(l, p) ==
    LET d == WorldScaled(l.dict)
    IN  [l EXCEPT !.dict = d,
                  !.reduced = IF WorldSize < 2 THEN d ELSE @,
                  !.backward = d["losses"], !.done = TRUE,
                  !.logged = Logs(p),
                  !.log = IF Logs(p) THEN LogLine(d, l.reduced) ELSE @]

Optimize(p) ==
    /\ pc[p] = "backward"
    /\ loss' = [loss EXCEPT ![p] = AfterLog(@, p)]
    /\ \E inf \in (IF cfg.fp16 THEN BOOLEAN ELSE {FALSE}) :
         LET ni    == GlobalStep(p)
             fires == Fires(p, ni)
             o0    == [opt[p] EXCEPT !.ops = << >>, !.ema_now = FALSE,
                                     !.stepped = FALSE]
         IN  /\ opt' = [opt EXCEPT ![p] = AfterBackward(Backward(o0, ni, inf), fires, p)]
             /\ last_opt_step' = [last_opt_step EXCEPT ![p] = NextLastOptStep(p, fires, ni)]
             /\ mb' = [mb EXCEPT ![p] = [n |-> @.n + 1, ni |-> ni,
                                         window |-> accumulate[p],
                                         before |-> last_opt_step[p],
                                         lr |-> [j \in Groups |->
                                                   param_groups[p][j].lr]]]
    \* the loop goes on to the next (images, targets) of the loader
    /\ batch' = [batch EXCEPT ![p] = NoBatch(@.img_size)]
    /\ iter_i' = [iter_i EXCEPT ![p] = @ + 1]
    /\ pc' = [pc EXCEPT ![p] = IF iter_i[p] + 1 < cfg.epoch_size
                               THEN "iter" ELSE "epoch_end"]
    /\ UNCHANGED << param_groups, lr_scheduler, build >>
    /\ UNCHANGED << weights, eval_ops, cfg, Ranks, max_epoch, loop_epoch, epoch, accumulate,
                    heavy_eval, mosaic_prob, mixup_prob, best_map, ckpt,
                    evals, calls, evaled >>

(***************************************************************************)
(* The end of train_one_epoch (lr_scheduler.step(), self.epoch += 1) and   *)
(* train()'s decision whether to call eval.                                *)
(***************************************************************************)
EvalInvokedMainOnly(p) ==
    IsMainProcess(p)
    /\ (\/ heavy_eval[p]
        \/ loop_epoch[p] % cfg.eval_epoch = 0
        \/ loop_epoch[p] = max_epoch - 1)

\* if self.heavy_eval: eval  else: if (epoch % eval_epoch) == 0 or
\* (epoch == max_epoch - 1): eval
EvalInvoked(p) ==
    \/ heavy_eval[p]
    \/ loop_epoch[p] % cfg.eval_epoch = 0
    \/ loop_epoch[p] = max_epoch - 1

EpochEnd(p) ==
    /\ pc[p] = "epoch_end"
    \* self.lr_scheduler.step()
    /\ lr_scheduler' = [lr_scheduler EXCEPT ![p] = @ + 1]
    /\ param_groups' = [param_groups EXCEPT ![p] =
                            ScheduledGroups(@, lr_scheduler[p] + 1, cfg)]
    /\ epoch' = [epoch EXCEPT ![p] = @ + 1]
    /\ IF EvalInvoked(p)
       THEN /\ pc' = [pc EXCEPT ![p] = "eval"]
            /\ evaled' = [evaled EXCEPT ![p] = @ \cup {loop_epoch[p]}]
            /\ calls' = [calls EXCEPT ![p].sched = @ + 1, ![p].eval = @ + 1]
            /\ UNCHANGED loop_epoch
       ELSE /\ pc' = [pc EXCEPT ![p] = "loop"]
            /\ loop_epoch' = [loop_epoch EXCEPT ![p] = @ + 1]
            /\ calls' = [calls EXCEPT ![p].sched = @ + 1]
            /\ UNCHANGED evaled
    /\ UNCHANGED << batch, loss, build >>
    /\ UNCHANGED << weights, eval_ops, cfg, Ranks, max_epoch, iter_i, last_opt_step, accumulate,
                    heavy_eval, mosaic_prob, mixup_prob, best_map, opt, mb,
                    ckpt, evals >>

(***************************************************************************)
(* eval(): on the main process the evaluator and the checkpoint, on every  *)
(* process of a distributed run the barrier.                               *)
(***************************************************************************)
\* the checkpoint torch.save writes; model_eval is the EMA shadow if the
\* process has one
CheckpointLiveWeights(p, old, map) ==
    [n |-> old.n + 1, by |-> p, epoch |-> epoch[p], mAP |-> map,
     ema |-> FALSE, optimizer |-> param_groups[p]]

\* 'model': model_eval.state_dict() (ema: of the EMA shadow), 'mAP',
\* 'optimizer': self.optimizer.state_dict() (its param_groups),
\* 'epoch': self.epoch
Checkpoint(p, old, map) ==
    [n |-> old.n + 1, by |-> p, epoch |-> epoch[p], mAP |-> map,
     ema |-> HasEma(p), optimizer |-> param_groups[p]]

\* round(self.best_map*100, 1): the metric in percent, to one decimal
RoundedPercent(best) == Rat(RoundHalfEven(best, 10), 10)

SaveNoEvalAsBest(files, p) ==
    [files EXCEPT !["best"] = Checkpoint(p, @, RatOf(NoEvalMap))]

\* weight_name = '{}_no_eval.pth', 'mAP': -1.
SaveNoEval(files, p) ==
    [files EXCEPT !["no_eval"] = Checkpoint(p, @, RatOf(NoEvalMap))]

\* weight_name = '{}_best.pth', 'mAP': round(self.best_map*100, 1)
SaveBest(files, p, new_best) ==
    [files EXCEPT !["best"] = Checkpoint(p, @, RoundedPercent(new_best))]

\* if cur_map > self.best_map:
IsBetter(cur_map, best) == cur_map > best

NoBarrier == FALSE

\* if self.args.distributed: dist.barrier()
WaitsAtBarrier == cfg.distributed

EvalOpsCompareFirst(better) ==
    << "compare", "evaluate" >> \o (IF better THEN << "save" >> ELSE << >>)

\* self.evaluator.evaluate(model_eval); cur_map = self.evaluator.map;
\* if cur_map > self.best_map: ... torch.save(...)
EvalOps(better) ==
    << "evaluate", "compare" >> \o (IF better THEN << "save" >> ELSE << >>)

Eval(p) ==
    /\ pc[p] = "eval"
    /\ IF ~IsMainProcess(p)
       THEN /\ calls' = [calls EXCEPT ![p].body = @ + 1,
                            ![p].barrier = @ + (IF WaitsAtBarrier THEN 1 ELSE 0),
                            ![p].returned = @ + (IF WaitsAtBarrier THEN 0 ELSE 1)]
            /\ eval_ops' = [eval_ops EXCEPT ![p] = << >>]
            /\ UNCHANGED << best_map, ckpt, evals >>
       ELSE IF ~cfg.evaluator
       THEN /\ ckpt' = SaveNoEval(ckpt, p)
            /\ calls' = [calls EXCEPT ![p].body = @ + 1,
                            ![p].barrier = @ + (IF WaitsAtBarrier THEN 1 ELSE 0),
                            ![p].returned = @ + (IF WaitsAtBarrier THEN 0 ELSE 1)]
            /\ eval_ops' = [eval_ops EXCEPT ![p] = << "save" >>]
            /\ UNCHANGED << best_map, evals >>
       ELSE \E cur_map \in MetricValues :
              LET better == IsBetter(cur_map, best_map[p])
              IN  /\ best_map' = [best_map EXCEPT ![p] = IF better THEN cur_map ELSE @]
                  /\ ckpt' = IF better THEN SaveBest(ckpt, p, cur_map) ELSE ckpt
                  /\ evals' = [evals EXCEPT ![p] = Append(@, [m |-> cur_map, wrote |-> better])]
                  /\ eval_ops' = [eval_ops EXCEPT ![p] = EvalOps(better)]
                  /\ calls' = [calls EXCEPT ![p].body = @ + 1,
                                  ![p].evaluator = @ + 1,
                                  ![p].barrier = @ + (IF WaitsAtBarrier THEN 1 ELSE 0),
                                  ![p].returned = @ + (IF WaitsAtBarrier THEN 0 ELSE 1)]
    /\ pc' = [pc EXCEPT ![p] = IF WaitsAtBarrier THEN "barrier" ELSE "loop"]
    /\ loop_epoch' = [loop_epoch EXCEPT ![p] = IF WaitsAtBarrier THEN @ ELSE @ + 1]
    /\ UNCHANGED << param_groups, lr_scheduler, batch, loss, build >>
    /\ UNCHANGED << weights, cfg, Ranks, max_epoch, epoch, iter_i, last_opt_step,
                    accumulate, heavy_eval, mosaic_prob, mixup_prob, opt, mb,
                    evaled >>

\* dist.barrier(): nobody leaves before everybody has arrived
Barrier ==
    /\ \A q \in Ranks : pc[q] = "barrier"
    /\ pc' = [q \in Ranks |-> "loop"]
    /\ loop_epoch' = [q \in Ranks |-> loop_epoch[q] + 1]
    /\ calls' = [q \in Ranks |-> [calls[q] EXCEPT !.returned = @ + 1]]
    /\ eval_ops' = [q \in Ranks |-> Append(eval_ops[q], "barrier")]
    /\ UNCHANGED << param_groups, lr_scheduler, batch, loss, build >>
    /\ UNCHANGED << weights, cfg, Ranks, max_epoch, epoch, iter_i, last_opt_step,
                    accumulate, heavy_eval, mosaic_prob, mixup_prob, best_map,
                    opt, mb, ckpt, evals, evaled >>

(***************************************************************************)
(* Specifications.                                                         *)
(*   Spec      one process; the trainers, batch sizes, warmup, fp16,       *)
(*             clipping and EMA vary (the optimizer side)                  *)
(*   SpecEval  one process; the epochs, the evaluation cadence, the        *)
(*             augmentation probabilities and the evaluator vary           *)
(*   SpecDist  two processes of a distributed run                          *)
(*   SpecWarm  one process; the warmup: its length, the batch size (also   *)
(*             above 64 and not dividing 64) and the optimizer vary        *)
(*   SpecAug   one process; the targets of the loader, the image size, the *)
(*             strides and the multi-scale range vary                      *)
(*   SpecLoss  one process or two; the trainers and the losses the         *)
(*             criterion returns vary                                      *)
(*   SpecCadence  one process or two; the epochs, the evaluation cadence   *)
(*             and the evaluator vary                                      *)
(*   SpecBuild one process; the names given to build_model and             *)
(*             build_trainer and the type of the stride vary               *)
(***************************************************************************)
TrainConfigs ==
    [ trainer_type : TrainerTypes, batch_size : BatchSizes, wp_epoch : {0, 1},
      fp16 : BOOLEAN, clip_grad : ClipGrads, ema : BOOLEAN,
      optimizer : {"sgd"}, lr0 : {10}, lrf : {10}, warmup_bias_lr : {100},
      warmup_momentum : {800}, momentum : {937},
      multi_scale : {FALSE}, img_size : {640}, stride : {<< 8, 16, 32 >>},
      multi_scale_range : {<< Rat(1, 2), Rat(3, 2) >>}, min_box_size : {8},
      dataset : {"plain"},
      evaluator : {FALSE}, distributed : {FALSE},
      epoch_size : 1..MaxEpochSize, args_epoch : 1..MaxArgsEpoch,
      no_aug_epoch : {0}, eval_epoch : {2}, mosaic_prob : {1},
      mixup_prob : {0}, start_epoch : {0},
      criterion : {{[loss_cls |-> 1, losses |-> 2]}},
      model : {"yolovx_s"}, stride_type : {"list"} ]

Init == \E c \in TrainConfigs : Construct(c, {0})

Next ==
    \/ \E p \in Ranks : TrainLoopHead(p)
    \/ \E p \in Ranks : Forward(p)
    \/ ReduceDict
    \/ \E p \in Ranks : Optimize(p)
    \/ \E p \in Ranks : EpochEnd(p)
    \/ \E p \in Ranks : Eval(p)

Spec == Init /\ [][Next]_vars

EvalConfigs ==
    [ trainer_type : {"yolo"}, batch_size : {64}, wp_epoch : {0, 1},
      fp16 : {FALSE}, clip_grad : {0}, ema : BOOLEAN,
      optimizer : {"sgd"}, lr0 : {10}, lrf : {10}, warmup_bias_lr : {100},
      warmup_momentum : {800}, momentum : {937},
      multi_scale : {FALSE}, img_size : {640}, stride : {<< 8, 16, 32 >>},
      multi_scale_range : {<< Rat(1, 2), Rat(3, 2) >>}, min_box_size : {8},
      dataset : {"plain"},
      evaluator : BOOLEAN, distributed : {FALSE},
      epoch_size : {1}, args_epoch : 1..(MaxArgsEpoch + 1),
      no_aug_epoch : {0, 1}, eval_epoch : {1, 3}, mosaic_prob : {0, 1},
      mixup_prob : {0, 1}, start_epoch : {0, 1},
      criterion : {{[loss_cls |-> 1, losses |-> 2]}},
      model : {"yolovx_s"}, stride_type : {"list"} ]

InitEval == \E c \in EvalConfigs : Construct(c, {0})

SpecEval == InitEval /\ [][Next]_vars

DistRanks == {0, 1}

DistConfigs ==
    [ trainer_type : {"yolo"}, batch_size : {32, 64}, wp_epoch : {0},
      fp16 : {FALSE}, clip_grad : {0}, ema : {TRUE},
      optimizer : {"sgd"}, lr0 : {10}, lrf : {10}, warmup_bias_lr : {100},
      warmup_momentum : {800}, momentum : {937},
      multi_scale : {FALSE}, img_size : {640}, stride : {<< 8, 16, 32 >>},
      multi_scale_range : {<< Rat(1, 2), Rat(3, 2) >>}, min_box_size : {8},
      dataset : {"plain"},
      evaluator : BOOLEAN, distributed : {TRUE},
      epoch_size : 1..(MaxEpochSize - 1), args_epoch : 1..MaxArgsEpoch,
      no_aug_epoch : {0}, eval_epoch : {1, 2}, mosaic_prob : {0, 1},
      mixup_prob : {0}, start_epoch : {0},
      criterion : {{[loss_cls |-> 1, losses |-> 2]}},
      model : {"yolovx_s"}, stride_type : {"list"} ]

InitDist == \E c \in DistConfigs : Construct(c, DistRanks)

NextDist ==
    \/ \E p \in Ranks : TrainLoopHead(p)
    \/ \E p \in Ranks : Forward(p)
    \/ ReduceDict
    \/ \E p \in Ranks : Optimize(p)
    \/ \E p \in Ranks : EpochEnd(p)
    \/ \E p \in Ranks : Eval(p)
    \/ Barrier

SpecDist == InitDist /\ [][NextDist]_vars

WarmBatchSizes == {16, 24, 64, 128}

WarmConfigs ==
    [ trainer_type : TrainerTypes, batch_size : WarmBatchSizes,
      wp_epoch : {0, 1, 2}, fp16 : {FALSE}, clip_grad : {0}, ema : {FALSE},
      optimizer : {"sgd", "adamw"}, lr0 : {10}, lrf : {10},
      warmup_bias_lr : {100}, warmup_momentum : {800}, momentum : {937},
      multi_scale : {FALSE}, img_size : {640}, stride : {<< 8, 16, 32 >>},
      multi_scale_range : {<< Rat(1, 2), Rat(3, 2) >>}, min_box_size : {8},
      dataset : {"plain"},
      evaluator : {FALSE}, distributed : {FALSE},
      epoch_size : 1..MaxEpochSize, args_epoch : 1..MaxArgsEpoch,
      no_aug_epoch : {0}, eval_epoch : {2}, mosaic_prob : {0},
      mixup_prob : {0}, start_epoch : {0},
      criterion : {{[loss_cls |-> 1, losses |-> 2]}},
      model : {"yolovx_s"}, stride_type : {"list"} ]

InitWarm == \E c \in WarmConfigs : Construct(c, {0})

SpecWarm == InitWarm /\ [][Next]_vars

AugConfigs ==
    [ trainer_type : TrainerTypes, batch_size : {64}, wp_epoch : {0},
      fp16 : {FALSE}, clip_grad : {0}, ema : {FALSE},
      optimizer : {"sgd"}, lr0 : {10}, lrf : {10}, warmup_bias_lr : {100},
      warmup_momentum : {800}, momentum : {937},
      multi_scale : BOOLEAN, img_size : {320, 640},
      stride : {<< 8, 16, 32 >>, << 64 >>},
      multi_scale_range : {<< Rat(1, 2), Rat(3, 2) >>, << Rat(3, 4), Rat(5, 4) >>},
      min_box_size : {8}, dataset : {"boxes"},
      evaluator : {FALSE}, distributed : {FALSE},
      epoch_size : 1..(MaxEpochSize - 1), args_epoch : {1},
      no_aug_epoch : {0}, eval_epoch : {2}, mosaic_prob : {0},
      mixup_prob : {0}, start_epoch : {0},
      criterion : {{[loss_cls |-> 1, losses |-> 2]}},
      model : {"yolovx_s"}, stride_type : {"list"} ]

InitAug == \E c \in AugConfigs : Construct(c, {0})

SpecAug == InitAug /\ [][Next]_vars

LossConfigs ==
    [ trainer_type : TrainerTypes, batch_size : {32, 64}, wp_epoch : {0},
      fp16 : {FALSE}, clip_grad : {0}, ema : {FALSE},
      optimizer : {"sgd"}, lr0 : {10}, lrf : {10}, warmup_bias_lr : {100},
      warmup_momentum : {800}, momentum : {937},
      multi_scale : {FALSE}, img_size : {640}, stride : {<< 8, 16, 32 >>},
      multi_scale_range : {<< Rat(1, 2), Rat(3, 2) >>}, min_box_size : {8},
      dataset : {"plain"},
      evaluator : {FALSE}, distributed : BOOLEAN,
      epoch_size : 1..(MaxEpochSize - 1), args_epoch : {1},
      no_aug_epoch : {0}, eval_epoch : {2}, mosaic_prob : {0},
      mixup_prob : {0}, start_epoch : {0},
      criterion : {{[loss_cls |-> 1, losses |-> 2], [loss_cls |-> 2, losses |-> 5]}},
      model : {"yolovx_s"}, stride_type : {"list"} ]

InitLoss ==
    \E c \in LossConfigs : Construct(c, IF c.distributed THEN DistRanks ELSE {0})

SpecLoss == InitLoss /\ [][NextDist]_vars

BuildConfigs ==
    [ trainer_type : TrainerTypes \cup {"ssd"}, batch_size : {64},
      wp_epoch : {0, 1}, fp16 : {FALSE}, clip_grad : {0}, ema : {FALSE},
      optimizer : {"sgd"}, lr0 : {10}, lrf : {10}, warmup_bias_lr : {100},
      warmup_momentum : {800}, momentum : {937},
      multi_scale : BOOLEAN, img_size : {640}, stride : {<< 32 >>},
      multi_scale_range : {<< Rat(1, 2), Rat(3, 2) >>}, min_box_size : {8},
      dataset : {"plain"},
      evaluator : {FALSE}, distributed : {FALSE},
      epoch_size : 1..(MaxEpochSize - 1), args_epoch : {1},
      no_aug_epoch : {0}, eval_epoch : {2}, mosaic_prob : {0},
      mixup_prob : {0}, start_epoch : {0},
      criterion : {{[loss_cls |-> 1, losses |-> 2]}},
      model : {"yolov1", "yolovx_s", "resnet"},
      stride_type : {"int", "list", "tuple"} ]

InitBuild == \E c \in BuildConfigs : Construct(c, {0})

SpecBuild == InitBuild /\ [][Next]_vars

CadenceConfigs ==
    [ trainer_type : {"yolo"}, batch_size : {64}, wp_epoch : {0},
      fp16 : {FALSE}, clip_grad : {0}, ema : {FALSE},
      optimizer : {"sgd"}, lr0 : {10}, lrf : {10}, warmup_bias_lr : {100},
      warmup_momentum : {800}, momentum : {937},
      multi_scale : {FALSE}, img_size : {640}, stride : {<< 8, 16, 32 >>},
      multi_scale_range : {<< Rat(1, 2), Rat(3, 2) >>}, min_box_size : {8},
      dataset : {"plain"},
      evaluator : BOOLEAN, distributed : BOOLEAN,
      epoch_size : {1}, args_epoch : {1, 3},
      no_aug_epoch : {0, 1}, eval_epoch : {1, 2}, mosaic_prob : {0, 1},
      mixup_prob : {0}, start_epoch : {0},
      criterion : {{[loss_cls |-> 1, losses |-> 2]}},
      model : {"yolovx_s"}, stride_type : {"list"} ]

InitCadence ==
    \E c \in CadenceConfigs : Construct(c, IF c.distributed THEN DistRanks ELSE {0})

SpecCadence == InitCadence /\ [][NextDist]_vars

(***************************************************************************)
(* Properties.                                                             *)
(***************************************************************************)
Has(ops, op) == \E i \in 1..Len(ops) : ops[i] = op

IndexOf(ops, op) == CHOOSE i \in 1..Len(ops) : ops[i] = op

\* the micro-batch process p completed last ran the optimizer update
Fired(p) == Has(opt[p].ops, "step")

IsYolo == cfg.trainer_type = "yolo"

(***************************************************************************)
(* C1: in YoloTrainer the optimizer update runs on a micro-batch if and    *)
(* only if global_step - last_opt_step >= the accumulation window in       *)
(* effect on that micro-batch; last_opt_step changes only on a micro-batch *)
(* whose update ran, and becomes that micro-batch's global step.           *)
(***************************************************************************)
C1_UpdateIffThreshold ==
    \A p \in Ranks :
        (IsYolo /\ mb[p].n > 0) =>
            /\ Fired(p) <=> (mb[p].ni - mb[p].before >= mb[p].window)
            /\ last_opt_step[p] = IF Fired(p) THEN mb[p].ni ELSE mb[p].before

\* an update that ran in a later epoch, with a window of several batches
C1_Witness ==
    \E p \in Ranks :
        /\ IsYolo /\ mb[p].n > 0 /\ Fired(p)
        /\ mb[p].window >= 2 /\ epoch[p] >= 1
        /\ mb[p].ni - mb[p].before = mb[p].window

(***************************************************************************)
(* C2: in YoloTrainer with a constant accumulation window A (wp_epoch = 0) *)
(* every optimizer update applies the gradients of exactly A micro-batches,*)
(* the first update of the run included.                                   *)
(***************************************************************************)
C2_UpdateSumsWindow ==
    \A p \in Ranks :
        (IsYolo /\ cfg.wp_epoch = 0 /\ mb[p].n > 0 /\ opt[p].stepped) =>
            Cardinality(opt[p].applied) = mb[p].window

(***************************************************************************)
(* C3: in every trainer the EMA shadow is updated on a micro-batch if and  *)
(* only if an optimizer step changed the parameters on that micro-batch,   *)
(* so there are as many EMA updates as parameter-changing steps.           *)
(***************************************************************************)
C3_EmaOnlyOnSuccessfulStep ==
    \A p \in Ranks :
        (HasEma(p) /\ mb[p].n > 0) =>
            /\ opt[p].ema_now <=> opt[p].stepped
            /\ opt[p].ema_updates = opt[p].steps

(***************************************************************************)
(* C4: in YoloTrainer the gradients are zeroed only on a micro-batch whose *)
(* update ran, after the optimizer step; a micro-batch that only           *)
(* accumulates zeroes nothing, so the gradients of all micro-batches since *)
(* the last update are present, and a step applies all of them.            *)
(***************************************************************************)
C4_ZeroGradOnlyAfterStep ==
    \A p \in Ranks :
        (IsYolo /\ mb[p].n > 0) =>
            LET ops == opt[p].ops
                sinceUpdate(last, never) ==
                    {k \in 0..mb[p].ni : k > last \/ (never /\ k = 0)}
            IN  /\ Has(ops, "zero_grad") =>
                      /\ Fired(p)
                      /\ IndexOf(ops, "step") < IndexOf(ops, "zero_grad")
                /\ ~Fired(p) => ~Has(ops, "zero_grad")
                /\ opt[p].grads = sinceUpdate(last_opt_step[p], opt[p].zeroed = 0)
                /\ opt[p].stepped =>
                      opt[p].applied = sinceUpdate(mb[p].before, opt[p].zeroed = 1)

\* after an earlier update, two micro-batches accumulated and none zeroed
C4_Witness ==
    \E p \in Ranks :
        /\ IsYolo /\ mb[p].n > 0 /\ ~Fired(p)
        /\ opt[p].zeroed >= 1
        /\ Cardinality(opt[p].grads) >= 2

OpRank(op) ==
    CASE op = "backward"  -> 1
      [] op = "unscale"   -> 2
      [] op = "clip"      -> 3
      [] op = "step"      -> 4
      [] op = "update"    -> 5
      [] op = "zero_grad" -> 6
      [] OTHER            -> 7

(***************************************************************************)
(* C5: in every trainer, with fp16 on or off, a micro-batch whose update   *)
(* runs calls backward, unscale, clip, step, scaler update, zero_grad in   *)
(* this order (unscale and clip exactly when clip_grad > 0); clipping      *)
(* never sees gradients that were not unscaled, and the step never         *)
(* precedes clipping.                                                      *)
(***************************************************************************)
C5_UpdateOrder ==
    \A p \in Ranks :
        (mb[p].n > 0 /\ Fired(p)) =>
            LET ops == opt[p].ops
            IN  /\ \A i, j \in 1..Len(ops) :
                      i < j => OpRank(ops[i]) < OpRank(ops[j])
                /\ ops[1] = "backward"
                /\ Has(ops, "update") /\ Has(ops, "zero_grad")
                /\ Has(ops, "clip") <=> cfg.clip_grad > 0
                /\ Has(ops, "clip") => Has(ops, "unscale")
                /\ ~opt[p].clipped_scaled

\* an update with clipping under fp16, in a trainer without accumulation
C5_Witness ==
    \E p \in Ranks :
        /\ cfg.trainer_type = "detr" /\ cfg.fp16 /\ mb[p].n > 0
        /\ Has(opt[p].ops, "clip") /\ Has(opt[p].ops, "zero_grad")

(***************************************************************************)
(* C6: with an evaluator, the 'best' checkpoint is written at evaluation i *)
(* if and only if its metric is strictly greater than every earlier one    *)
(* (so always at the first evaluation), and best_map is the greatest       *)
(* metric seen.                                                            *)
(***************************************************************************)
C6_BestWrittenIffStrictlyGreater ==
    \A p \in Ranks :
        LET e == evals[p]
        IN  /\ \A i \in 1..Len(e) :
                  e[i].wrote <=> (\A j \in 1..(i - 1) : e[i].m > e[j].m)
            /\ Len(e) > 0 =>
                  /\ \E i \in 1..Len(e) : best_map[p] = e[i].m
                  /\ \A i \in 1..Len(e) : best_map[p] >= e[i].m

(***************************************************************************)
(* C7: without an evaluator every eval call of the main process writes the *)
(* '<model>_no_eval' checkpoint, never the 'best' one, and leaves best_map *)
(* as it was.                                                              *)
(***************************************************************************)
C7_NoEvaluatorSavesNoEval ==
    ~cfg.evaluator =>
        /\ ckpt["no_eval"].n = calls[0].body
        /\ ckpt["no_eval"].n > 0 =>
              (ckpt["no_eval"].by = 0 /\ ckpt["no_eval"].mAP = RatOf(NoEvalMap))
        /\ ckpt["best"] = NoFile
        /\ best_map[0] = InitBestMap
        /\ calls[0].evaluator = 0

\* the no-evaluator checkpoint written a second time
C7_Witness == ~cfg.evaluator /\ ckpt["no_eval"].n >= 2 /\ calls[0].body >= 2

(***************************************************************************)
(* C8: in a distributed run only the main process runs the evaluator,      *)
(* compares the metric and writes checkpoints; and no process has returned *)
(* from its k-th eval before the main process finished the evaluation and  *)
(* the checkpoint write of its k-th eval.                                  *)
(***************************************************************************)
C8_LeaderSavesOthersWait ==
    /\ \A p \in Ranks : calls[p].returned <= calls[0].body
    /\ \A p \in Ranks \ {0} :
          /\ best_map[p] = InitBestMap
          /\ calls[p].evaluator = 0
          /\ evals[p] = << >>
    /\ \A f \in DOMAIN ckpt : ckpt[f].n > 0 => ckpt[f].by = 0

\* a non-main process back from an eval whose 'best' checkpoint was written
C8_Witness ==
    /\ cfg.distributed
    /\ \E p \in Ranks \ {0} : calls[p].returned >= 1 /\ pc[p] = "iter"
    /\ ckpt["best"].n >= 1

AllDone == \A p \in Ranks : pc[p] = "done"

(***************************************************************************)
(* C9: in a distributed run every process calls reduce_dict once per       *)
(* micro-batch and the barrier once per eval, eval follows the same epochs *)
(* on every process, the processes that meet at a collective have called   *)
(* it equally often, and no process is left waiting: until all are done,   *)
(* some process can move.                                                  *)
(***************************************************************************)
C9_CollectivesMatch ==
    /\ \A p \in Ranks :
          /\ calls[p].reduce =
                mb[p].n + (IF pc[p] \in {"reduce", "backward"} THEN 1 ELSE 0)
          /\ calls[p].barrier =
                calls[p].eval - (IF pc[p] = "eval" THEN 1 ELSE 0)
          /\ calls[p].eval = Cardinality(evaled[p])
    /\ \A p, q \in Ranks :
          /\ \A e \in 0..max_epoch :
                (e < loop_epoch[p] /\ e < loop_epoch[q]) =>
                    (e \in evaled[p] <=> e \in evaled[q])
          /\ (pc[p] = "reduce" /\ pc[q] = "reduce") =>
                calls[p].reduce = calls[q].reduce
          /\ (pc[p] = "barrier" /\ pc[q] = "barrier") =>
                calls[p].barrier = calls[q].barrier
    /\ AllDone \/ ENABLED NextDist

\* both processes done after at least two evals and three micro-batches
C9_Witness ==
    /\ cfg.distributed /\ AllDone
    /\ \A p \in Ranks : calls[p].barrier >= 2 /\ calls[p].reduce >= 3

(***************************************************************************)
(* C10: eval is called after every epoch e of the loop with                *)
(* e >= max_epoch - no_aug_epoch - 1, whatever eval_epoch is and whatever  *)
(* the dataset's mosaic_prob and mixup_prob were.                          *)
(***************************************************************************)
C10_TailEpochsEvaluated ==
    \A p \in Ranks :
        \A e \in 0..max_epoch :
            (cfg.start_epoch <= e /\ e < loop_epoch[p] /\ SecondStage(e)) =>
                e \in evaled[p]

(***************************************************************************)
(* C11: the augmentation stage is one-way: heavy_eval, once True, stays    *)
(* True; train() never raises mosaic_prob or mixup_prob; it sets each of   *)
(* them to 0 at most once in a run; and as long as the loop has not        *)
(* reached an epoch e >= max_epoch - no_aug_epoch - 1 it has changed       *)
(* neither probability nor heavy_eval.                                     *)
(***************************************************************************)
C11_AugmentationOneWay ==
    /\ [](\A p \in Ranks :
            /\ calls[p].close_mosaic <= 1
            /\ calls[p].close_mixup <= 1
            /\ loop_epoch[p] < max_epoch - cfg.no_aug_epoch - 1 =>
                  /\ ~heavy_eval[p]
                  /\ mosaic_prob[p] = cfg.mosaic_prob
                  /\ mixup_prob[p] = cfg.mixup_prob
                  /\ calls[p].close_mosaic = 0 /\ calls[p].close_mixup = 0)
    /\ [][\A p \in Ranks :
            /\ heavy_eval[p] => heavy_eval'[p]
            /\ mosaic_prob'[p] <= mosaic_prob[p]
            /\ mixup_prob'[p] <= mixup_prob[p]]_vars

\* a run that went through two epochs of the second stage after an epoch
\* of the first, and closed both augmentations
C11_Witness ==
    /\ AllDone /\ cfg.start_epoch = 0
    /\ cfg.no_aug_epoch = 1 /\ max_epoch >= 3
    /\ heavy_eval[0]
    /\ calls[0].close_mosaic = 1 /\ calls[0].close_mixup = 1
    /\ mosaic_prob[0] = 0 /\ mixup_prob[0] = 0

(***************************************************************************)
(* C12: inside every train_one_epoch call self.epoch equals the epoch of   *)
(* train()'s loop, for every start_epoch >= 0; so the first micro-batch of *)
(* a run resumed at start_epoch has the global step                        *)
(* start_epoch * epoch_size, and lies outside the warmup window when that  *)
(* product exceeds the window.                                             *)
(***************************************************************************)
C12_EpochCounterIsLoopEpoch ==
    \A p \in Ranks :
        /\ pc[p] \in {"iter", "reduce", "backward", "epoch_end"} =>
              epoch[p] = loop_epoch[p]
        /\ mb[p].n = 1 =>
              /\ mb[p].ni = cfg.start_epoch * cfg.epoch_size
              /\ cfg.start_epoch * cfg.epoch_size > WarmupWindow =>
                    ~WarmupActive(mb[p].ni, WarmupWindow)

(***************************************************************************)
(* C13: from each micro-batch of a run to the next the global step grows   *)
(* by exactly 1, also from the last micro-batch of an epoch to the first   *)
(* of the next (epoch_size is constant); it never repeats or decreases.    *)
(***************************************************************************)
C13_GlobalStepGrowsByOne ==
    [][\A p \in Ranks :
          (mb[p].n > 0 /\ mb'[p].n = mb[p].n + 1) =>
              mb'[p].ni = mb[p].ni + 1]_vars

\* the first micro-batch of a third epoch, in epochs of several batches
C13_Witness ==
    \E p \in Ranks :
        /\ cfg.epoch_size >= 2
        /\ mb[p].n = 2 * cfg.epoch_size + 1
        /\ mb[p].ni = 2 * cfg.epoch_size
        /\ epoch[p] = 2

\* process p is inside a micro-batch: its warmup is done, its update is not
InMicroBatch(p) == pc[p] \in {"reduce", "backward"}

(***************************************************************************)
(* C14: in YoloTrainer the accumulation window of every micro-batch is     *)
(* >= 1 for every batch size (also above 64); its target is                *)
(* max(1, round(64 / batch_size)), 4 for batch size 16; in a warmup window *)
(* it is 1 at global step 0, does not decrease from one global step to the *)
(* next, is the target at global_step = warmup_window, and is the target   *)
(* on every micro-batch after the window.                                  *)
(***************************************************************************)
C14_AccumulationWindow ==
    \A p \in Ranks :
        (IsYolo /\ InMicroBatch(p)) =>
            LET ni == GlobalStep(p)
                nw == WarmupWindow
                target == Max(1, RoundHalfEven(RefBatch, cfg.batch_size))
            IN  /\ accumulate[p] >= 1
                /\ cfg.batch_size = 16 => target = 4
                /\ (nw > 0 /\ ni = 0) => accumulate[p] = 1
                /\ (mb[p].n > 0 /\ ni <= nw) => accumulate[p] >= mb[p].window
                /\ ni >= nw => accumulate[p] = target

\* the end of a warmup window of several steps: the window has grown from
\* the previous micro-batch's to the target 4 of batch size 16
C14_Witness ==
    \E p \in Ranks :
        /\ IsYolo /\ InMicroBatch(p) /\ cfg.batch_size = 16
        /\ WarmupWindow >= 2 /\ GlobalStep(p) = WarmupWindow
        /\ accumulate[p] = 4 /\ mb[p].window \in 1..3

(***************************************************************************)
(* C15: over the global steps 0..warmup_window in order, also where the    *)
(* epoch advances and the target initial_lr * lf(epoch) is evaluated anew, *)
(* the learning rate of every group but group 0 starts at 0.0 and never    *)
(* decreases, and the learning rate of group 0 (the bias group) starts at  *)
(* warmup_bias_lr and never increases.                                     *)
(***************************************************************************)
C15_WarmupLrMonotone ==
    \A p \in Ranks :
        (InMicroBatch(p) /\ WarmupWindow > 0 /\ GlobalStep(p) <= WarmupWindow) =>
            \A j \in Groups :
                LET lr == param_groups[p][j].lr
                IN  /\ GlobalStep(p) = 0 =>
                          lr = (IF j = 0 THEN Milli(cfg.warmup_bias_lr) ELSE Milli(0))
                    /\ mb[p].n > 0 =>
                          IF j = 0 THEN RatLE(lr, mb[p].lr[j])
                                   ELSE RatLE(mb[p].lr[j], lr)

(***************************************************************************)
(* C16: in every trainer, at global step 0 of a warmup window the learning *)
(* rate of group 0 is warmup_bias_lr and that of every other group 0.0; at *)
(* global_step = warmup_window the learning rate of every group j is       *)
(* initial_lr[j] * lf(current epoch); the momentum of a group that has one *)
(* is warmup_momentum at step 0 and the configured momentum at the end of  *)
(* the window; a group without a momentum entry never gets one.            *)
(***************************************************************************)
C16_WarmupEndpoints ==
    \A p \in Ranks :
        \A j \in Groups :
            LET g == param_groups[p][j]
            IN  /\ (InMicroBatch(p) /\ WarmupWindow > 0 /\ GlobalStep(p) = 0) =>
                      /\ g.lr = (IF j = 0 THEN Milli(cfg.warmup_bias_lr) ELSE Milli(0))
                      /\ g.has_momentum => g.momentum = Milli(cfg.warmup_momentum)
                /\ (InMicroBatch(p) /\ GlobalStep(p) = WarmupWindow) =>
                      /\ g.lr = RatMul(g.initial_lr, Lf(epoch[p], max_epoch, cfg.lrf))
                      /\ g.has_momentum => g.momentum = Milli(cfg.momentum)
                /\ g.has_momentum <=> cfg.optimizer = "sgd"

\* the indices of the sequence t, in order, that satisfy Test
Kept(t, Test(_)) == SelectSeq([i \in 1..Len(t) |-> i], Test)

(***************************************************************************)
(* C17: every size rescale_image_targets returns is a multiple of the      *)
(* maximum stride; for images of 640, stride 32 and range [0.5, 1.5] it    *)
(* lies in [320, 992]; in general it lies between                          *)
(* floor(old * lo / stride) * stride and old * hi + stride; and the old    *)
(* size of the draw is the size of the images the loader gave.             *)
(***************************************************************************)
C17_NewImgSize ==
    \A p \in Ranks :
        (InMicroBatch(p) /\ cfg.multi_scale) =>
            LET new == batch[p].img_size
                old == batch[p].old_img_size
                m   == MaxStride(cfg.stride)
                lo  == cfg.multi_scale_range[1]
                hi  == cfg.multi_scale_range[2]
            IN  /\ new % m = 0
                /\ (old = 640 /\ m = 32 /\ lo = Rat(1, 2) /\ hi = Rat(3, 2)) =>
                      (320 <= new /\ new <= 992)
                /\ ((old * lo.num) \div (lo.den * m)) * m <= new
                /\ new * hi.den <= old * hi.num + m * hi.den
                /\ old = batch[p].loaded

\* the largest size of 640, 32, [0.5, 1.5], which is not the size loaded
C17_Witness ==
    \E p \in Ranks :
        /\ InMicroBatch(p) /\ cfg.multi_scale /\ cfg.img_size = 640
        /\ MaxStride(cfg.stride) = 32
        /\ cfg.multi_scale_range = << Rat(1, 2), Rat(3, 2) >>
        /\ batch[p].img_size = 960

(***************************************************************************)
(* C18: the target filter keeps a (box, label) pair if and only if the     *)
(* smaller of the width and the height of its box is >= min_box_size (so   *)
(* with 8 a 6x10 box is dropped and an 8x8 box kept); on the multi-scale   *)
(* path the width and height are those of the box clamped to the old image *)
(* and rescaled by new size / old size.                                    *)
(***************************************************************************)
C18_FilterKeepsLargeEnough ==
    \A p \in Ranks :
        InMicroBatch(p) =>
            \A t \in 1..Len(batch[p].loader) :
                LET in  == batch[p].loader[t]
                    out == batch[p].targets[t]
                    old == batch[p].old_img_size
                    new == batch[p].img_size
                    cl(x) == IF x.num <= 0 THEN 0
                             ELSE IF x.num >= old * x.den THEN old
                             ELSE x.num \div x.den
                    \* width and height, times old on the multi-scale path
                    w(i) == IF cfg.multi_scale
                            THEN (cl(in.boxes[i][3]) - cl(in.boxes[i][1])) * new
                            ELSE in.boxes[i][3].num - in.boxes[i][1].num
                    h(i) == IF cfg.multi_scale
                            THEN (cl(in.boxes[i][4]) - cl(in.boxes[i][2])) * new
                            ELSE in.boxes[i][4].num - in.boxes[i][2].num
                    least == IF cfg.multi_scale
                             THEN cfg.min_box_size * old
                             ELSE cfg.min_box_size
                    Large(i) == w(i) >= least /\ h(i) >= least
                IN  /\ out.labels = Kept(in.labels, Large)
                    /\ Len(out.boxes) = Len(out.labels)
                    /\ cfg.trainer_type # "detr" =>
                          \A k \in 1..Len(out.boxes) :
                              out.boxes[k] =
                                  IF cfg.multi_scale
                                  THEN Rescale(Clamp(in.boxes[out.labels[k]], old),
                                               old, new)
                                  ELSE in.boxes[out.labels[k]]
                    /\ (~cfg.multi_scale /\ cfg.min_box_size = 8) =>
                          \A i \in 1..Len(in.boxes) :
                              /\ (w(i) = 6 /\ h(i) = 10) =>
                                    ~\E k \in 1..Len(out.labels) : out.labels[k] = i
                              /\ (w(i) = 8 /\ h(i) = 8) =>
                                    \E k \in 1..Len(out.labels) : out.labels[k] = i

\* fixed size: of the 6x10 and the 8x8 box only the second is kept
C18_Witness ==
    \E p \in Ranks :
        /\ InMicroBatch(p) /\ ~cfg.multi_scale
        /\ batch[p].loader = << Target(<< << 0, 0, 6, 10 >>, << 0, 0, 8, 8 >> >>) >>
        /\ batch[p].targets[1].labels = << 2 >>

(***************************************************************************)
(* C19: refine_targets and rescale_image_targets never change what the     *)
(* caller passed: after the call the loader's box and label values are as  *)
(* before, and the entries of the caller's targets still hold the          *)
(* unfiltered, unrescaled boxes and labels.                                *)
(***************************************************************************)
C19_CallerTargetsUntouched ==
    \A p \in Ranks :
        InMicroBatch(p) => batch[p].caller = batch[p].loader

(***************************************************************************)
(* C20: for every corner box with 0 <= x1 <= x2 <= 640 and                 *)
(* 0 <= y1 <= y2 <= 640 the DetrTrainer's conversion to the normalized     *)
(* center-size box ((x1+x2)/2, (y1+y2)/2, x2-x1, y2-y1) / 640, followed by *)
(* the inverse conversion (cx - w/2, cy - h/2, cx + w/2, cy + h/2) * 640,  *)
(* gives the box back.                                                     *)
(***************************************************************************)
C20_BoxRoundTrip ==
    \A p \in Ranks :
        (InMicroBatch(p) /\ cfg.trainer_type = "detr" /\ cfg.img_size = 640) =>
            \A t \in 1..Len(batch[p].loader) :
                \A i \in 1..Len(batch[p].loader[t].boxes) :
                    LET box == batch[p].loader[t].boxes[i]
                        new == batch[p].img_size
                    IN  (/\ 0 <= box[1].num /\ RatLE(box[1], box[3])
                         /\ RatLE(box[3], RatOf(640))
                         /\ 0 <= box[2].num /\ RatLE(box[2], box[4])
                         /\ RatLE(box[4], RatOf(640))) =>
                            CxcywhToXyxy(batch[p].new_boxes[t][i], new) =
                                IF cfg.multi_scale
                                THEN Rescale(box, 640, new)
                                ELSE box

\* a box with an odd x1 + x2 and y1 + y2, converted at the fixed size 640
C20_Witness ==
    \E p \in Ranks :
        /\ InMicroBatch(p) /\ cfg.trainer_type = "detr" /\ ~cfg.multi_scale
        /\ cfg.img_size = 640
        /\ batch[p].loader = << Target(<< << 3, 4, 16, 11 >> >>) >>
        /\ batch[p].new_boxes[1][1] =
              << Rat(19, 1280), Rat(15, 1280), Rat(13, 640), Rat(7, 640) >>

\* loss[p] is of a micro-batch that process p has completed
Backpropagated(p) == loss[p].done

\* ... and whose log line was written
LoggedStep(p) == loss[p].done /\ loss[p].logged

(***************************************************************************)
(* C21: in every trainer the loss passed to backward is the aggregate of   *)
(* the local, unreduced loss dict, and every loss value the periodic log   *)
(* line prints is the value the reduced dict holds for that key.           *)
(***************************************************************************)
C21_LogReadsReduced ==
    \A p \in Ranks :
        /\ Backpropagated(p) => loss[p].backward = loss[p].dict["losses"]
        /\ LoggedStep(p) =>
              \A k \in LossKeys : loss[p].log[k] = loss[p].reduced[k]

(***************************************************************************)
(* C22: only YoloTrainer accumulates gradients: it runs the optimizer      *)
(* update on a micro-batch exactly when global_step - last_opt_step >= A;  *)
(* RTMTrainer and DetrTrainer run it on every micro-batch.                 *)
(***************************************************************************)
C22_OnlyYoloAccumulates ==
    \A p \in Ranks :
        mb[p].n > 0 =>
            IF cfg.trainer_type = "yolo"
            THEN Fired(p) <=> (mb[p].ni - mb[p].before >= mb[p].window)
            ELSE Fired(p)

\* RTMTrainer updates on a micro-batch on which the rule would not
C22_Witness ==
    \E p \in Ranks :
        /\ cfg.trainer_type = "rtmdet" /\ mb[p].n > 0 /\ Fired(p)
        /\ mb[p].ni - mb[p].before < mb[p].window

\* as first stated: DetrTrainer alone updates on every micro-batch, and
\* RTMTrainer follows the accumulation rule as YoloTrainer does
C22_OnlyDetrOptsOut ==
    \A p \in Ranks :
        mb[p].n > 0 =>
            IF cfg.trainer_type = "detr"
            THEN Fired(p)
            ELSE Fired(p) <=> (mb[p].ni - mb[p].before >= mb[p].window)

(***************************************************************************)
(* C23: an unknown trainer_type, an unknown model name, or a stride that   *)
(* is neither an integer nor a list makes building the trainer or the      *)
(* model fail with an error before any training micro-batch is begun, and  *)
(* no trainer (or model) object is returned.                               *)
(***************************************************************************)
C23_BadConfigFailsAtBuild ==
    (\/ cfg.trainer_type \notin TrainerTypes
     \/ cfg.model \notin KnownModels
     \/ cfg.stride_type \notin {"int", "list"}) =>
        /\ build.error # "none"
        /\ ~(build.model = "returned" /\ build.trainer = "returned")
        /\ \A p \in Ranks : calls[p].fetched = 0

\* v is m (a metric in 1/10000) in percent, rounded to one decimal
IsRoundedPercent(v, m) ==
    LET t == (v.num * 10) \div v.den
    IN  v = Rat(t, 10) /\ Abs(10 * t - m) <= 5

(***************************************************************************)
(* C24: every checkpoint that eval writes holds the EMA shadow weights if  *)
(* the saving process has an EMA tracker and the live weights otherwise,   *)
(* the optimizer's state and the trainer's epoch counter; the 'best' file  *)
(* holds round(best_map * 100, 1) as its metric, the no-evaluator file -1. *)
(***************************************************************************)
C24_CheckpointContents ==
    [][\A f \in DOMAIN ckpt :
          ckpt'[f] # ckpt[f] =>
             LET c == ckpt'[f]
             IN  /\ c.n = ckpt[f].n + 1
                 /\ IsMainProcess(c.by)
                 /\ c.ema <=> HasEma(c.by)
                 /\ c.optimizer = param_groups[c.by]
                 /\ c.epoch = epoch[c.by]
                 /\ f = "best" => IsRoundedPercent(c.mAP, best_map'[c.by])
                 /\ f = "no_eval" => c.mAP = RatOf(NoEvalMap)]_vars

\* a 'best' file with the EMA shadow, its metric 0.1536 stored as 15.4
C24_Witness ==
    /\ ckpt["best"].n > 0 /\ ckpt["best"].ema
    /\ best_map[0] = 1536 /\ ckpt["best"].mAP = Rat(154, 10)
    /\ ckpt["best"].epoch = epoch[0]

\* process p takes the first part of a micro-batch, up to reduce_dict
StartsMicroBatch(p) == pc[p] = "iter" /\ pc'[p] = "reduce"

(***************************************************************************)
(* C25: the warmup runs on exactly the micro-batches whose global step is  *)
(* at most the warmup window, and there it overwrites the learning rate of *)
(* every group and the momentum of every group that has one; on a          *)
(* micro-batch with a greater global step the per-step code leaves every   *)
(* group as it is, so past the warmup the groups change only at the end of *)
(* an epoch, where the scheduler sets the learning rates and nothing else. *)
(***************************************************************************)
C25_WarmupFrame ==
    [][\A p \in Ranks :
          /\ StartsMicroBatch(p) =>
                param_groups'[p] =
                    IF GlobalStep(p) <= WarmupWindow
                    THEN Warmup(param_groups[p], GlobalStep(p), WarmupWindow,
                                epoch[p])
                    ELSE param_groups[p]
          /\ param_groups'[p] # param_groups[p] =>
                \/ StartsMicroBatch(p) /\ GlobalStep(p) <= WarmupWindow
                \/ /\ pc[p] = "epoch_end"
                   /\ \A j \in Groups :
                         /\ param_groups'[p][j].lr =
                               DecayedLr(param_groups[p][j], lr_scheduler'[p], cfg)
                         /\ param_groups'[p][j].momentum =
                               param_groups[p][j].momentum]_vars

\* a micro-batch past a warmup of several steps, its learning rates those
\* of the micro-batch before it, below lr0 through the scheduler only
C25_Witness ==
    \E p \in Ranks :
        /\ InMicroBatch(p) /\ WarmupWindow >= 2 /\ GlobalStep(p) > WarmupWindow
        /\ mb[p].n > 0 /\ mb[p].ni = GlobalStep(p) - 1
        /\ \A j \in Groups :
              /\ param_groups[p][j].lr = mb[p].lr[j]
              /\ param_groups[p][j].lr # param_groups[p][j].initial_lr

(***************************************************************************)
(* C26: with wp_epoch = 0 the first micro-batch (global step 0 = the whole *)
(* warmup window) gives every group its target learning rate initial_lr *  *)
(* lf(epoch) and its configured momentum, and YoloTrainer's accumulation   *)
(* window its target; the interpolation over the empty window [0, 0]       *)
(* yields the end value, so no group ever holds a warmup starting value,   *)
(* and no later micro-batch runs the warmup.                               *)
(***************************************************************************)
C26_ZeroWarmup ==
    \A p \in Ranks :
        cfg.wp_epoch = 0 =>
            /\ calls[p].warmup = IF calls[p].fetched > 0 THEN 1 ELSE 0
            /\ \A j \in Groups :
                  LET g == param_groups[p][j]
                  IN  /\ g.lr # WarmupStartLr(j)
                      /\ g.has_momentum => g.momentum = Milli(cfg.momentum)
                      /\ (InMicroBatch(p) /\ GlobalStep(p) = 0) =>
                            g.lr = RatMul(g.initial_lr,
                                          Lf(epoch[p], max_epoch, cfg.lrf))
            /\ (IsYolo /\ InMicroBatch(p)) =>
                  accumulate[p] = Max(1, RoundHalfEven(RefBatch, cfg.batch_size))

\* the second micro-batch of a run without a warmup window: the warmup ran
\* once, the window is the target 4 of batch size 16
C26_Witness ==
    \E p \in Ranks :
        /\ cfg.wp_epoch = 0 /\ IsYolo /\ cfg.batch_size = 16
        /\ InMicroBatch(p) /\ GlobalStep(p) = 1
        /\ calls[p].warmup = 1 /\ accumulate[p] = 4
        /\ param_groups[p][0].lr = Milli(cfg.lr0)

\* the corner boxes of target t that DetrTrainer tests and converts: the
\* loader's on the fixed path, the clamped and rescaled ones otherwise
DetrCornerBoxes(p, t) ==
    IF cfg.multi_scale
    THEN RescaledBoxes(batch[p].loader[t].boxes, batch[p].old_img_size,
                       batch[p].img_size)
    ELSE batch[p].loader[t].boxes

(***************************************************************************)
(* C27: in DetrTrainer, on the fixed path and on the multi-scale path, the *)
(* keep mask is computed from the corner boxes first, the conversion to    *)
(* centre-size and the normalization are then applied to every box of the  *)
(* image, discarded ones included, and the mask is applied last; what is   *)
(* stored is what converting only the kept boxes gives.                    *)
(***************************************************************************)
C27_ConvertsAllThenFilters ==
    \A p \in Ranks :
        (cfg.trainer_type = "detr" /\ InMicroBatch(p)) =>
            \A t \in 1..Len(batch[p].loader) :
                LET corner == DetrCornerBoxes(p, t)
                    kept == Kept(corner,
                                 LAMBDA i : RatLE(RatOf(cfg.min_box_size),
                                                  MinTgtSize(corner[i])))
                IN  /\ Len(batch[p].new_boxes[t]) = Len(batch[p].loader[t].boxes)
                    /\ batch[p].targets[t].boxes =
                          [k \in 1..Len(kept) |->
                              Normalize(XyxyToCxcywh(corner[kept[k]]),
                                        batch[p].img_size)]

\* an image of which one box is kept and one is dropped, both converted
C27_Witness ==
    \E p \in Ranks :
        /\ cfg.trainer_type = "detr" /\ InMicroBatch(p)
        /\ \E t \in 1..Len(batch[p].loader) :
              /\ Len(batch[p].targets[t].boxes) = 1
              /\ Len(batch[p].new_boxes[t]) = 2

\* as first stated: only boxes that passed the filter are converted
C27_OnlyKeptConverted ==
    \A p \in Ranks :
        (cfg.trainer_type = "detr" /\ InMicroBatch(p)) =>
            \A t \in 1..Len(batch[p].loader) :
                Len(batch[p].new_boxes[t]) = Len(batch[p].targets[t].boxes)

(***************************************************************************)
(* C28: the loss dict is not changed once it has been reduced: at the log  *)
(* step every entry of the local dict, 'losses' included, has the value it *)
(* had when reduce_dict was called, in a single process and in a           *)
(* distributed run.                                                        *)
(***************************************************************************)
C28_LossDictFrozenAfterReduce ==
    \A p \in Ranks :
        LoggedStep(p) =>
            \A k \in LossKeys : loss[p].dict[k] = loss[p].at_reduce[k]

(***************************************************************************)
(* C29: in a distributed run every trainer multiplies the aggregate loss   *)
(* by the world size before backward, and what it multiplies and           *)
(* backpropagates is the local loss; in a single process the local loss is *)
(* backpropagated as it is.                                                *)
(***************************************************************************)
C29_WorldSizeScaling ==
    \A p \in Ranks :
        Backpropagated(p) =>
            loss[p].backward =
                IF cfg.distributed
                THEN RatMul(loss[p].at_reduce["losses"], RatOf(WorldSize))
                ELSE loss[p].at_reduce["losses"]

\* e % eval_epoch == 0 or e == max_epoch - 1
OnCadence(e) == e % cfg.eval_epoch = 0 \/ e = max_epoch - 1

\* op comes before every op2 in ops
Before(ops, op, op2) ==
    \A i, j \in 1..Len(ops) : (ops[i] = op /\ ops[j] = op2) => i < j

(***************************************************************************)
(* C30: while heavy_eval is not set (outside the reduced-augmentation      *)
(* stage) eval is called after loop epoch e exactly when e % eval_epoch =  *)
(* 0 or e is the final epoch max_epoch - 1, and the final epoch is         *)
(* evaluated in every run; inside an eval call the evaluator runs before   *)
(* the comparison with best_map, the comparison before the checkpoint is   *)
(* written, and the barrier of a distributed run comes after all of them.  *)
(***************************************************************************)
C30_EvalCadenceAndOrder ==
    /\ [](\A p \in Ranks :
            /\ pc[p] = "done" => (max_epoch - 1) \in evaled[p]
            /\ Before(eval_ops[p], "evaluate", "compare")
            /\ Before(eval_ops[p], "compare", "save")
            /\ \A op \in {"evaluate", "compare", "save"} :
                  Before(eval_ops[p], op, "barrier")
            /\ (IsMainProcess(p) /\ cfg.evaluator /\ calls[p].body > 0) =>
                  Has(eval_ops[p], "evaluate") /\ Has(eval_ops[p], "compare")
            /\ Has(eval_ops[p], "barrier") <=>
                  (cfg.distributed /\ calls[p].body > 0 /\ pc[p] # "barrier"))
    /\ [][\A p \in Ranks :
            (pc[p] = "epoch_end" /\ pc'[p] # "epoch_end" /\ ~heavy_eval[p]) =>
                (pc'[p] = "eval" <=> OnCadence(loop_epoch[p]))]_vars

\* a distributed run that skipped the evaluation after epoch 1 and is past
\* the barrier of the evaluation after its final epoch, which wrote a file
C30_Witness ==
    /\ cfg.distributed /\ cfg.evaluator /\ max_epoch = 3
    /\ evaled[0] = {0, 2} /\ ~heavy_eval[0]
    /\ eval_ops[0] = << "evaluate", "compare", "save", "barrier" >>
    /\ eval_ops[1] = << "barrier" >>

(***************************************************************************)
(* Runs that are followed to their end: a process executes its loop        *)
(* sequentially over a finite loader, so a step that is possible is        *)
(* eventually taken.                                                       *)
(***************************************************************************)
TermConfigs ==
    [ trainer_type : {"yolo"}, batch_size : {32, 64}, wp_epoch : {0, 1},
      fp16 : {FALSE}, clip_grad : {0}, ema : {FALSE},
      optimizer : {"sgd"}, lr0 : {10}, lrf : {10}, warmup_bias_lr : {100},
      warmup_momentum : {800}, momentum : {937},
      multi_scale : {FALSE}, img_size : {640}, stride : {<< 8, 16, 32 >>},
      multi_scale_range : {<< Rat(1, 2), Rat(3, 2) >>}, min_box_size : {8},
      dataset : {"plain"},
      evaluator : BOOLEAN, distributed : {FALSE},
      epoch_size : 1..(MaxEpochSize - 1), args_epoch : 1..MaxArgsEpoch,
      no_aug_epoch : {0}, eval_epoch : {1, 2}, mosaic_prob : {0},
      mixup_prob : {0}, start_epoch : {0, 1},
      criterion : {{[loss_cls |-> 1, losses |-> 2]}},
      model : {"yolovx_s"}, stride_type : {"list"} ]

InitTerm == \E c \in TermConfigs : Construct(c, {0})

SpecTerm == InitTerm /\ [][Next]_vars /\ WF_vars(Next)

InTrainOneEpoch(p) == pc[p] \in {"iter", "reduce", "backward", "epoch_end"}

ConfiguredEpochs == cfg.args_epoch + cfg.wp_epoch - cfg.start_epoch

(***************************************************************************)
(* C31: with a finite loader train() terminates, after exactly             *)
(* (configured max_epoch + wp_epoch - start_epoch) calls of                *)
(* train_one_epoch; each call steps the epoch-level scheduler exactly once *)
(* and adds exactly 1 to the epoch counter, after the last micro-batch of  *)
(* the epoch and before the epoch's evaluation.                            *)
(***************************************************************************)
C31_TerminatesAfterConfiguredEpochs ==
    /\ <>AllDone
    /\ [](\A p \in Ranks :
            /\ calls[p].train_one_epoch <= ConfiguredEpochs
            /\ pc[p] = "done" => calls[p].train_one_epoch = ConfiguredEpochs
            /\ calls[p].sched = epoch[p]
            /\ calls[p].train_one_epoch =
                  epoch[p] + (IF InTrainOneEpoch(p) THEN 1 ELSE 0))
    /\ [][\A p \in Ranks :
            (epoch'[p] # epoch[p] \/ lr_scheduler'[p] # lr_scheduler[p]) =>
                /\ pc[p] = "epoch_end" /\ iter_i[p] = cfg.epoch_size
                /\ epoch'[p] = epoch[p] + 1
                /\ lr_scheduler'[p] = lr_scheduler[p] + 1
                /\ calls'[p].body = calls[p].body
                /\ pc'[p] \in {"eval", "loop"}]_vars

C31_Witness ==
    /\ AllDone /\ cfg.start_epoch = 1 /\ cfg.wp_epoch = 1
    /\ calls[0].train_one_epoch = 2 /\ calls[0].body >= 1
    /\ cfg.epoch_size > 1

WroteAfter(p, e, f) ==
    /\ IsMainProcess(p) /\ pc[p] = "loop" /\ loop_epoch[p] = e + 1
    /\ e \in evaled[p]
    /\ IF f = "no_eval" THEN ~cfg.evaluator
       ELSE cfg.evaluator /\ evals[p] # << >> /\ evals[p][Len(evals[p])].wrote

(***************************************************************************)
(* C33: a checkpoint written after the loop epoch e of train() stores the  *)
(* epoch field e + 1, the epoch a resumed run has to start at, for every   *)
(* start_epoch >= 0 (runs resumed from a checkpoint included).             *)
(***************************************************************************)
C33_CheckpointStoresNextEpoch ==
    \A p \in Ranks : \A f \in {"best", "no_eval"} :
        \A e \in 0..(max_epoch - 1) :
            WroteAfter(p, e, f) => ckpt[f].epoch = e + 1

(***************************************************************************)
(* Multi-scale runs on small images: the lower end of the range drawn from *)
(* can lie below the maximum stride.                                       *)
(***************************************************************************)
SmallConfigs ==
    [ trainer_type : TrainerTypes, batch_size : {64}, wp_epoch : {0},
      fp16 : {FALSE}, clip_grad : {0}, ema : {FALSE},
      optimizer : {"sgd"}, lr0 : {10}, lrf : {10}, warmup_bias_lr : {100},
      warmup_momentum : {800}, momentum : {937},
      multi_scale : {TRUE}, img_size : {32, 64, 320},
      stride : {<< 8, 16, 32 >>, << 64 >>},
      multi_scale_range : {<< Rat(1, 2), Rat(3, 2) >>, << Rat(3, 4), Rat(5, 4) >>},
      min_box_size : {8}, dataset : {"boxes"},
      evaluator : {FALSE}, distributed : {FALSE},
      epoch_size : 1..(MaxEpochSize - 2), args_epoch : {1},
      no_aug_epoch : {0}, eval_epoch : {2}, mosaic_prob : {0},
      mixup_prob : {0}, start_epoch : {0},
      criterion : {{[loss_cls |-> 1, losses |-> 2]}},
      model : {"yolovx_s"}, stride_type : {"list"} ]

InitSmall == \E c \in SmallConfigs : Construct(c, {0})

SpecSmall == InitSmall /\ [][Next]_vars

\* rescale_image_targets has drawn its new_img_size on this micro-batch
DrewSize(p) == batch[p].old_img_size > 0

(***************************************************************************)
(* C34: the image size rescale_image_targets produces is at least the      *)
(* maximum stride, never 0, for every incoming size, stride and            *)
(* multi-scale range, so neither the rescale factor new_size / old_size    *)
(* nor the normalization by new_size works with a zero.                    *)
(***************************************************************************)
C34_NewImgSizeAtLeastStride ==
    \A p \in Ranks :
        DrewSize(p) => batch[p].new_img_size >= MaxStride(cfg.stride)

InUnitInterval(x) == RatLE(RatOf(0), x) /\ RatLE(x, RatOf(1))

(***************************************************************************)
(* C35: every target box DetrTrainer hands to the criterion has its four   *)
(* normalized centre-size coordinates in [0, 1], on the multi-scale path   *)
(* and on the fixed-resolution path, for any boxes of the loader (boxes    *)
(* that extend outside the image included).                                *)
(***************************************************************************)
C35_DetrBoxesNormalized ==
    \A p \in Ranks :
        (cfg.trainer_type = "detr" /\ InMicroBatch(p)) =>
            \A t \in 1..Len(batch[p].targets) :
                \A i \in 1..Len(batch[p].targets[t].boxes) :
                    \A k \in 1..4 :
                        InUnitInterval(batch[p].targets[t].boxes[i][k])

(***************************************************************************)
(* build_model, "if trainable:": the pretrained checkpoint is filtered and *)
(* loaded non-strictly, then the resume checkpoint is loaded strictly.     *)
(***************************************************************************)
PoppedAbsentOnly(checkpoint_state_dict, model_state_dict) ==
    { k \in DOMAIN checkpoint_state_dict : k \notin DOMAIN model_state_dict }

\* for k in list(checkpoint_state_dict.keys()): the keys popped, those not
\* in model_state_dict and those whose shape differs from the model's
Popped(checkpoint_state_dict, model_state_dict) ==
    { k \in DOMAIN checkpoint_state_dict :
        IF k \in DOMAIN model_state_dict
        THEN model_state_dict[k].shape # checkpoint_state_dict[k]
        ELSE TRUE }

\* checkpoint_state_dict after the pops
AfterPops(checkpoint_state_dict, popped) ==
    [k \in DOMAIN checkpoint_state_dict \ popped |-> checkpoint_state_dict[k]]

\* model.load_state_dict(state_dict, strict): every entry whose key the
\* model has is copied unless its shape differs; a shape that differs
\* raises RuntimeError, and so do, if strict, a key the model lacks and a
\* key of the model that state_dict lacks
LoadStateDict(model_state_dict, state_dict, strict, from) ==
    LET common     == DOMAIN state_dict \cap DOMAIN model_state_dict
        mismatch   == { k \in common : state_dict[k] # model_state_dict[k].shape }
        missing    == DOMAIN model_state_dict \ DOMAIN state_dict
        unexpected == DOMAIN state_dict \ DOMAIN model_state_dict
    IN  [model |-> [k \in DOMAIN model_state_dict |->
                      IF k \in common \ mismatch
                      THEN [shape |-> state_dict[k], from |-> from]
                      ELSE model_state_dict[k]],
         error |-> IF mismatch # {} \/ (strict /\ (missing \cup unexpected) # {})
                   THEN "RuntimeError" ELSE "none"]

\* if args.pretrained is not None: ... model.load_state_dict(
\*     checkpoint_state_dict, strict=False)
LoadPretrained ==
    /\ weights.stage = "pretrained"
    /\ IF weights.pretrained.given
       THEN LET popped == Popped(weights.pretrained.model, weights.model)
                checkpoint_state_dict == AfterPops(weights.pretrained.model, popped)
                load == LoadStateDict(weights.model, checkpoint_state_dict,
                                      FALSE, "pretrained")
            IN  weights' = [weights EXCEPT
                    !.popped = popped,
                    !.loaded = checkpoint_state_dict,
                    !.model = load.model,
                    !.error = load.error,
                    !.ops = Append(@, "pretrained"),
                    !.stage = IF load.error = "none" THEN "resume" ELSE "raised"]
       ELSE weights' = [weights EXCEPT !.stage = "resume"]
    /\ UNCHANGED << cfg, Ranks, pc, max_epoch, loop_epoch, epoch, iter_i,
                    last_opt_step, accumulate, heavy_eval, mosaic_prob,
                    mixup_prob, best_map, opt, mb, ckpt, evals, calls, evaled,
                    param_groups, lr_scheduler, batch, loss, build, eval_ops >>

\* if args.resume is not None: ... model.load_state_dict(
\*     checkpoint_state_dict); return model, criterion
LoadResume ==
    /\ weights.stage = "resume"
    /\ IF weights.resume.given
       THEN LET load == LoadStateDict(weights.model, weights.resume.model,
                                      TRUE, "resume")
            IN  weights' = [weights EXCEPT
                    !.model = load.model,
                    !.error = load.error,
                    !.ops = Append(@, "resume"),
                    !.stage = IF load.error = "none" THEN "returned" ELSE "raised"]
       ELSE weights' = [weights EXCEPT !.stage = "returned"]
    /\ UNCHANGED << cfg, Ranks, pc, max_epoch, loop_epoch, epoch, iter_i,
                    last_opt_step, accumulate, heavy_eval, mosaic_prob,
                    mixup_prob, best_map, opt, mb, ckpt, evals, calls, evaled,
                    param_groups, lr_scheduler, batch, loss, build, eval_ops >>

\* build_model for every model, trainable or not, with and without the two
\* checkpoints; the trainer is constructed from what it returns
InitLoad ==
    /\ \E trainable \in BOOLEAN, m \in ModelStateDicts :
         \E pretrained \in CheckpointFiles, resume \in CheckpointFiles :
            weights = BuiltModel(trainable, m, pretrained, resume)
    /\ ConstructTrainer(CHOOSE c \in TermConfigs : TRUE, {0})

NextLoad == LoadPretrained \/ LoadResume

SpecLoad == InitLoad /\ [][NextLoad]_vars

\* the entries of the pretrained file that do not fit the model
Unfit(checkpoint_state_dict, model_state_dict) ==
    { k \in DOMAIN checkpoint_state_dict :
        \/ k \notin DOMAIN model_state_dict
        \/ k \in DOMAIN model_state_dict
           /\ checkpoint_state_dict[k] # model_state_dict[k].shape }

(***************************************************************************)
(* C36: build_model with trainable = True and a pretrained checkpoint      *)
(* removes, before loading, every entry of the checkpoint whose key the    *)
(* model lacks or whose shape differs from the model's; every entry it     *)
(* loads has a key of the model and the model's shape; with pretrained and *)
(* resume both given the resume checkpoint is loaded after the pretrained  *)
(* one, so that the weights in effect are the resume checkpoint's.         *)
(***************************************************************************)
C36_PretrainedFilteredResumeLast ==
    /\ Has(weights.ops, "pretrained") =>
          /\ weights.trainable /\ weights.pretrained.given
          /\ weights.popped = Unfit(weights.pretrained.model, weights.model)
          /\ DOMAIN weights.loaded = DOMAIN weights.pretrained.model \ weights.popped
          /\ \A k \in DOMAIN weights.loaded :
                /\ k \in DOMAIN weights.model
                /\ weights.loaded[k] = weights.model[k].shape
                /\ weights.loaded[k] = weights.pretrained.model[k]
                /\ weights.model[k].from \in {"pretrained", "resume"}
          /\ weights.stage # "raised" \/ Has(weights.ops, "resume")
    /\ (weights.trainable /\ weights.stage = "returned"
            /\ weights.pretrained.given /\ weights.resume.given) =>
          /\ weights.ops = << "pretrained", "resume" >>
          /\ \A k \in DOMAIN weights.model : weights.model[k].from = "resume"

\* both files given, the pretrained one with an entry that fits, an entry
\* of another shape and an entry the model lacks
C36_Witness ==
    /\ weights.stage = "returned"
    /\ weights.ops = << "pretrained", "resume" >>
    /\ weights.popped = {"head", "extra"}
    /\ DOMAIN weights.loaded = {"backbone"}
    /\ weights.model["head"].shape # weights.pretrained.model["head"]

=============================================================================
